---- MODULE Spec2Model ----
(***************************************************************************)
(* netcall: an RPC framework over ZeroMQ ROUTER/DEALER sockets.            *)
(*                                                                         *)
(* Part I  models the client I/O core in its two backends:                 *)
(*   - GeventRPCClient     (netcall/green/client.py)                       *)
(*   - ThreadingRPCClient  (netcall/threading/client.py)                   *)
(* The service a client talks to is the environment of Part I: it answers  *)
(* a request it received with an ACK and then with YIELD / OK / FAIL.      *)
(*                                                                         *)
(* Part II models the service core in its backends:                        *)
(*   - GeventRPCService    (netcall/green/service.py)                      *)
(*   - ThreadingRPCService (netcall/threading/service.py)                  *)
(*   - TornadoRPCService   (netcall/service.py)                            *)
(*   - GeventRPCService    (zpyrpc/service.py)                             *)
(* The clients a service talks to are the environment of Part II.          *)
(***************************************************************************)
EXTENDS Integers, Sequences, FiniteSets, TLC

(***************************************************************************)
(* Bounds of the model.                                                    *)
(***************************************************************************)
\* number of call() invocations made on the client; the req_id of the
\* c-th call is c, so req_ids are pairwise distinct
MaxCalls == 2

\* size of the thread pool given to a ThreadingRPCClient; it is the maxsize
\* of self.req_queue, Queue(maxsize=self.pool._workers)
PoolWorkers == 2

\* number of requests a service receives; the req_id of the r-th is r
MaxReqs == 2

\* size of the thread pool given to a ThreadingRPCService; it is the maxsize
\* of self.res_queue, Queue(maxsize=self.pool._workers)
ServicePoolWorkers == 2

\* number of YIELD_* commands sent to the generators of a service
MaxCommands == 3

\* number of YIELD_* commands sent with a req_id that has no live generator
MaxStray == 1

\* number of values that the generator procedure yields
GenLen == 2

Calls == 1..MaxCalls

Reqs == 1..MaxReqs

\* the two client backends
ClientBackends == {"green", "threading"}

\* the classes of the timeout argument of call():
\*   "none"   timeout is None
\*   "nonpos" a number <= 0        (no timer is scheduled)
\*   "pos"    a number > 0         (a one-shot timer is scheduled)
\*   "bad"    neither None nor an int/float
Timeouts == {"none", "nonpos", "pos", "bad"}

\* reply types on the wire
ReplyTags == {"ACK", "OK", "FAIL", "YIELD"}

\* how many frame lists that are no reply the client is sent
MaxInvalid == 1

\* the commands of a client iterator
YieldCommands == {"YIELD_SEND", "YIELD_THROW", "YIELD_CLOSE"}

VARIABLES
    \* ------------------------------------------------ client (Part I)
    backend,    \* which client class is under test
    debug,      \* Python's __debug__: are assert statements executed
    ready,      \* self._ready
    ready_ev,   \* self._ready_ev  (Event)
    exit_ev,    \* self._exit_ev   (Event, green only)
    sock,       \* state of self.socket: "open" | "closed"
    rpc,        \* position of the reader greenlet / the I/O thread
    rput,       \* the reader blocked in yield_queue.put: <<>> or <<[id, item]>>
    call,       \* call[c]: position, arguments and outcome of the c-th call
    results,    \* keys of self._results
    res,        \* res[c]: the result object (AsyncResult/Future) of req_id c
    timers,     \* req_ids whose one-shot timer is scheduled and not yet run
    tput,       \* timer greenlets blocked in yield_queue.put(None)
    req_queue,  \* self.req_queue (threading)
    req_pipe,   \* frames in the req_push -> req_pull inproc pipe (threading)
    sent,       \* request frames put on the DEALER socket, in order
    srv,        \* srv[c]: type of the last reply to request c that was received
    rcvd,       \* how many replies of the service the reader has received
    iter,       \* iter[c]: state of the iterator that call c returned
    got,        \* got[c]: the values that the iterator of c has delivered
    cmds,       \* YIELD_* request frames put on the DEALER socket, in order
    req_thread, \* the request-forwarding thread (threading): "running" |
                \* "exited"
    epoch,      \* how often self.socket was closed and created anew (reset)
    rsock,      \* the socket the reader took in "socket = self.socket" when
                \* it started, named by the epoch in which it was created
    \* history of the client run
    dropped,    \* the non-ACK replies that found no pending result
    fired,      \* fired[c]: "no", or when the timer callback of c ran: "first"
                \* before any terminal reply of c was received, "late" after
    streamed,   \* req_ids for which a YIELD has been received
    late,       \* calls made after the timer of an earlier call had run
    nres,       \* nres[c]: how often a terminal outcome was stored for c
    ninv,       \* how many received frame lists _parse_reply has rejected
    \* ------------------------------------------------ service (Part II)
    svc,        \* which service class is under test
    req,        \* req[r]: the r-th request as parsed from its frames
    hpc,        \* hpc[r]: position of the handler of the r-th request
    wire,       \* the replies put on the ROUTER socket, in order
    res_queue,  \* self.res_queue (threading)
    res_pipe,   \* frames in the res_push -> res_pull inproc pipe (threading)
    idents,     \* self.idents (zpyrpc)
    msg_id,     \* self.msg_id (zpyrpc)
    yield_send_queues,  \* self.yield_send_queues (green): per req_id
                \* "absent", or the content of its Queue(1): "empty" or a command
    ncmd,       \* number of YIELD_* commands received by live generators
    stray,      \* the YIELD_* requests received whose req_id had no entry in
                \* yield_send_queues: their req_id and ignore flag, in order
    gene,       \* gene[r]: how many values the generator of request r has yielded
    thrown,     \* thrown[r]: the class name in the arguments of the last
                \* YIELD_THROW put in the queue of request r
    \* ------------------------------------------------ public API (Part III)
    procedures, \* self.procedures of the service: name -> callable
    listening,  \* the service is started: _is_started / greenlet / io_thread
    api,        \* the last call of the public API of the service: what was
                \* called, what it raised, and self.procedures before it
    napi,       \* how many calls of the public API were made
    msg_list,   \* a frame list handed to _parse_request
    parsed,     \* what _parse_request made of msg_list
    method,     \* self.method of the remote handle in the caller's hand
    chain,      \* the attribute names the caller has written to get it
    given,      \* the arguments the caller wrote in the last invocation
    issued      \* the invocations of client.call, in order

cvars == <<backend, debug, ready, ready_ev, exit_ev, sock, rpc, rput, call,
           results, res, timers, tput, req_queue, req_pipe, sent, srv,
           rcvd, iter, got, cmds, req_thread, epoch, rsock,
           dropped, fired, streamed, late, nres, ninv>>

svars == <<svc, req, hpc, wire, res_queue, res_pipe, idents, msg_id,
           yield_send_queues, ncmd, stray, gene, thrown>>

avars == <<procedures, listening, api, napi, msg_list, parsed, method, chain,
           given, issued>>

vars == <<cvars, svars, avars>>

(***************************************************************************)
(* Part I.  The client.                                                    *)
(***************************************************************************)

\* a call() that has not been made yet
IdleCall == [pc |-> "idle", ignore |-> FALSE, timeout |-> "none",
             wasready |-> FALSE, outcome |-> "none"]

\* _ReturnOrYieldResult.__init__ / Future(): nothing stored, not initialised,
\* the attribute is_yield does not exist yet, the yield queue is empty
NewResult == [init |-> FALSE, mode |-> "unset", roe |-> "unset", yq |-> <<>>]

\* capacity of _ReturnOrYieldResult.yield_queue, Queue(1)
YieldQueueSize == 1

CInit ==
    /\ backend \in ClientBackends
    /\ debug \in (IF backend = "green" THEN BOOLEAN ELSE {TRUE})
    /\ ready = FALSE
    /\ ready_ev = FALSE
    /\ exit_ev = FALSE
    /\ sock = "open"
    /\ rpc = "wait_ready"
    /\ rput = <<>>
    /\ call = [c \in Calls |-> IdleCall]
    /\ results = {}
    /\ res = [c \in Calls |-> NewResult]
    /\ timers = {}
    /\ tput = {}
    /\ req_queue = <<>>
    /\ req_pipe = <<>>
    /\ sent = <<>>
    /\ srv = [c \in Calls |-> "none"]
    /\ rcvd = 0
    /\ iter = [c \in Calls |-> "none"]
    /\ got = [c \in Calls |-> <<>>]
    /\ cmds = <<>>
    /\ req_thread = IF backend = "threading" THEN "running" ELSE "none"
    /\ epoch = 0
    /\ rsock = epoch
    /\ dropped = {}
    /\ fired = [c \in Calls |-> "no"]
    /\ streamed = {}
    /\ late = {}
    /\ nres = [c \in Calls |-> 0]
    /\ ninv = 0

\* ---------------------------------------------------------------- call()

\* call() that never returns early
ReturnsEarlyNever(ig) == FALSE

\* call() that checks readiness before the type of the timeout
CallPrecheckReadyFirst(to, rdy) ==
    IF ~rdy THEN "RuntimeError"
    ELSE IF to = "bad" THEN "TypeError"
    ELSE "go"


\* a get() that leaves the handshake item in the yield queue
HandshakeKept(q) == q

\* a reader that lets an ACK through to the pending result
ReaderSkipsNever(tag) == FALSE

\* a request queue that hands out the newest request first
QueuePutFront(q, x) == <<x>> \o q

\* a reader that leaves the entry in the table on every reply
GreenKeepsEntryAlways(tag) == TRUE

\* the guard "timeout is None or isinstance(timeout, (int, float))"
TimeoutOk(to) == to # "bad"

\* the guard "timeout and timeout > 0" that schedules the one-shot timer
TimerWanted(to) == to = "pos"

\* what call() raises before anything is sent: the type check comes first,
\* the readiness check second; "go" when both pass
CallPrecheck(to, rdy) ==
    IF ~TimeoutOk(to) THEN "TypeError"
    ELSE IF ~rdy THEN "RuntimeError"
    ELSE "go"

\* "if ignore: return None", right after the request was handed to the
\* send path
ReturnsEarly(ig) == ig

\* calls are made in the order of their req_ids (any number of them may be
\* in progress at once)
IsNextCall(c) == IF c = 1 THEN TRUE ELSE call[c-1].pc # "idle"

\* the record of a call that has just been made
CallRecord(pc, ig, to, out) ==
    [pc |-> pc, ignore |-> ig, timeout |-> to, wasready |-> ready,
     outcome |-> out]

\* is this call made after the timer of an earlier call has run
MadeLate == \E d \in Calls : fired[d] # "no"

\* GeventRPCClient.call: between socket.send_multipart and result.get()
\* the calling greenlet does not yield, so the send, the spawn_later and
\* the registration in self._results are one step
GreenCall(c, ig, to) ==
    LET pre == CallPrecheck(to, ready) IN
    /\ backend = "green"
    /\ call[c].pc = "idle"
    /\ IsNextCall(c)
    /\ late' = IF MadeLate THEN late \cup {c} ELSE late
    /\ IF pre # "go"
       THEN /\ call' = [call EXCEPT ![c] = CallRecord("done", ig, to, pre)]
            /\ UNCHANGED <<sent, timers, results, res>>
       ELSE /\ sent' = Append(sent, c)
            /\ IF ReturnsEarly(ig)
               THEN /\ call' = [call EXCEPT ![c] =
                                  CallRecord("done", ig, to, "None")]
                    /\ UNCHANGED <<timers, results, res>>
               ELSE /\ call' = [call EXCEPT ![c] =
                                  CallRecord("waiting", ig, to, "none")]
                    /\ timers' = IF TimerWanted(to) THEN timers \cup {c}
                                                     ELSE timers
                    /\ results' = results \cup {c}
                    /\ res' = [res EXCEPT ![c] = NewResult]
    /\ UNCHANGED <<backend, debug, ready, ready_ev, exit_ev, sock, rpc,
                   rput, tput, req_queue, req_pipe, srv, rcvd, iter, got,
                   cmds, req_thread, epoch, rsock, dropped, fired,
                   streamed, nres, ninv, svars, avars>>

\* Queue.put on self.req_queue, a FIFO Queue: the item goes to the end
QueuePut(q, x) == Append(q, x)

\* ThreadingRPCClient.call, first step: the checks and req_queue.put
\* (which blocks while the queue is full)
ThreadingCall(c, ig, to) ==
    LET pre == CallPrecheck(to, ready) IN
    /\ backend = "threading"
    /\ call[c].pc = "idle"
    /\ IsNextCall(c)
    /\ pre = "go" => Len(req_queue) < PoolWorkers
    /\ late' = IF MadeLate THEN late \cup {c} ELSE late
    /\ IF pre # "go"
       THEN /\ call' = [call EXCEPT ![c] = CallRecord("done", ig, to, pre)]
            /\ UNCHANGED req_queue
       ELSE /\ req_queue' = QueuePut(req_queue, c)
            /\ call' = [call EXCEPT ![c] =
                          IF ReturnsEarly(ig)
                          THEN CallRecord("done", ig, to, "None")
                          ELSE CallRecord("queued", ig, to, "none")]
    /\ UNCHANGED <<backend, debug, ready, ready_ev, exit_ev, sock, rpc,
                   rput, results, res, timers, tput, req_pipe, sent, srv,
                   rcvd, iter, got, cmds, req_thread, epoch, rsock,
                   dropped, fired, streamed, nres, ninv, svars, avars>>

\* ThreadingRPCClient.call, second step: Timer(timeout, _abort_request).start()
ThreadingCallTimer(c) ==
    /\ backend = "threading"
    /\ call[c].pc = "queued"
    /\ call' = [call EXCEPT ![c].pc = "armed"]
    /\ timers' = IF TimerWanted(call[c].timeout) THEN timers \cup {c}
                                                  ELSE timers
    /\ UNCHANGED <<backend, debug, ready, ready_ev, exit_ev, sock, rpc,
                   rput, results, res, tput, req_queue, req_pipe, sent,
                   srv, rcvd, iter, got, cmds, req_thread, epoch, rsock,
                   dropped, fired, streamed, late, nres, ninv, svars, avars>>

\* ThreadingRPCClient.call, third step: self._results[req_id] = Future()
ThreadingCallRegister(c) ==
    /\ backend = "threading"
    /\ call[c].pc = "armed"
    /\ call' = [call EXCEPT ![c].pc = "waiting"]
    /\ results' = results \cup {c}
    /\ res' = [res EXCEPT ![c] = NewResult]
    /\ UNCHANGED <<backend, debug, ready, ready_ev, exit_ev, sock, rpc,
                   rput, timers, tput, req_queue, req_pipe, sent, srv,
                   rcvd, iter, got, cmds, req_thread, epoch, rsock,
                   dropped, fired, streamed, late, nres, ninv, svars, avars>>

\* the socket the reader greenlet / the I/O thread works on: both take
\* self.socket once, before their loop, and a socket that reset() has
\* replaced was closed by it
ReaderSock == IF rsock = epoch THEN sock ELSE "closed"

\* ------------------------------------------------- the result object

\* _ReturnOrYieldResult.init_as_return / init_as_yield, called by the reader
\* only "if not async.is_init()"
InitAs(r, mode) ==
    IF r.init THEN r ELSE [r EXCEPT !.init = TRUE, !.mode = mode]

\* does yield_queue.put block
QueueFull(r) == Len(r.yq) >= YieldQueueSize

\* _ReturnOrYieldResult.set(obj) on an initialised result whose put, if
\* any, does not block: a stream gets the object in its yield queue, a
\* plain result in return_or_except (of a plain result the model keeps the
\* type of the reply that the object came with)
ResultSet(r, tag, obj) ==
    IF r.mode = "yield" THEN [r EXCEPT !.yq = Append(@, obj)]
                        ELSE [r EXCEPT !.roe = tag]

\* _ReturnOrYieldResult.set_exception(ex), the part before the put:
\* return_or_except.set_exception(ex)
ResultSetException(r, ex) == [r EXCEPT !.roe = ex]

\* the mode the reader initialises a result with: init_as_yield for a
\* YIELD, init_as_return for OK and FAIL
ModeOf(tag) == IF tag = "YIELD" THEN "yield" ELSE "return"

\* results.get for a YIELD (the entry stays), results.pop for OK and FAIL
GreenKeepsEntry(tag) == tag = "YIELD"

\* ------------------------------------------ the service (environment)

OnWire(c) == \E i \in 1..Len(sent) : sent[i] = c

\* the reply types that the reader tells apart after _parse_reply: "STOP" is
\* a FAIL whose ename is StopIteration
StreamTags == ReplyTags \cup {"STOP"}

\* the type frame of a reply
WireTag(tag) == IF tag = "STOP" THEN "FAIL" ELSE tag

\* reply['result'] of a FAIL: the exception that _parse_reply builds
ReplyException(tag) == IF tag = "STOP" THEN "StopIteration" ELSE tag

\* how _parse_reply reads a reply of the service
ParsedTag(w) ==
    IF w.tag = "FAIL" /\ w.data.ename = "StopIteration" THEN "STOP" ELSE w.tag

NonePayload == <<"None">>

\* the iterator of call c has sent a command and its reply has not been
\* received yet
Owed(c) ==
    /\ iter[c] \in {"waiting", "closing"}
    /\ res[c].yq = <<>>
    /\ rput = <<>>

\* The service answers a request that is on the wire with an ACK, then
\* possibly with the YIELD handshake of a generator, then with one terminal
\* OK or FAIL (also for a request sent with ignore: whether the service
\* honours the flag is its business); it answers a command of an iterator
\* with a YIELD or with a FAIL of StopIteration.  A reply is modelled at the
\* moment the reader receives it; srv[c] is the type of the last reply
\* received for c.  When a service is part of the run, the reply is the
\* next one on its socket.
SvcCanSend(c, tag) ==
    IF svc = "none"
    THEN CASE tag = "ACK"   -> OnWire(c) /\ srv[c] = "none"
           [] tag = "YIELD" -> srv[c] = "ACK" \/ (srv[c] = "YIELD" /\ Owed(c))
           [] tag = "STOP"  -> srv[c] = "YIELD" /\ Owed(c)
           [] OTHER         -> srv[c] \in {"ACK", "YIELD"}
    ELSE /\ rcvd < Len(wire)
         /\ wire[rcvd + 1].id = c
         /\ tag = ParsedTag(wire[rcvd + 1])

\* reply['result'] of an OK or YIELD: the handshake YIELD of a generator
\* carries None; the services of the client run on its own send the same
\* object with every other reply
Payload(c, tag) ==
    IF svc = "none"
    THEN IF tag = "YIELD" /\ srv[c] = "ACK" THEN NonePayload ELSE <<"obj">>
    ELSE wire[rcvd + 1].data.evalue

\* a terminal reply of request c has been received
TerminalSeen(c) == srv[c] \in {"OK", "FAIL"}

\* ----------------------------------------------------- the reader

\* "if msg_type == b'ACK': continue" of both readers
ReaderSkips(tag) == tag = "ACK"

\* where a reader goes on after a turn of its inner loop "while self._ready"
ReaderContinues == IF ready THEN "recv" ELSE "wait_ready"

\* GeventRPCClient._reader, one turn of the inner loop: recv_multipart,
\* _parse_reply, and the dispatch on the reply type, for the reply
\* [req_id = id, type = tag]
GreenReader(id, tag) ==
    /\ backend = "green"
    /\ rpc = "recv"
    /\ rput = <<>>
    /\ ReaderSock = "open"
    /\ SvcCanSend(id, tag)
    /\ srv' = [srv EXCEPT ![id] = WireTag(tag)]
    /\ rcvd' = IF svc = "none" THEN rcvd ELSE rcvd + 1
    /\ streamed' = IF tag = "YIELD" THEN streamed \cup {id} ELSE streamed
    /\ rpc' = ReaderContinues
    /\ LET r0 == InitAs(res[id], ModeOf(tag)) IN
       IF ReaderSkips(tag)
       THEN UNCHANGED <<results, res, rput, dropped, nres>>
       ELSE IF id \notin results
       THEN /\ dropped' = dropped \cup {[id |-> id, tag |-> WireTag(tag)]}
            /\ UNCHANGED <<results, res, rput, nres>>
       ELSE /\ results' = IF GreenKeepsEntry(tag) THEN results
                          ELSE results \ {id}
            /\ nres' = IF tag = "YIELD" THEN nres
                       ELSE [nres EXCEPT ![id] = @ + 1]
            /\ UNCHANGED dropped
            /\ IF tag \in {"OK", "YIELD"}
               THEN \* async.set(result)
                    IF r0.mode = "yield" /\ QueueFull(r0)
                    THEN /\ res' = [res EXCEPT ![id] = r0]
                         /\ rput' = <<[id |-> id, item |-> Payload(id, tag)]>>
                    ELSE /\ res' = [res EXCEPT ![id] =
                                      ResultSet(r0, tag, Payload(id, tag))]
                         /\ UNCHANGED rput
               ELSE \* async.set_exception(result)
                    LET r1 == ResultSetException(r0, ReplyException(tag)) IN
                    IF r1.mode = "yield" /\ QueueFull(r1)
                    THEN /\ res' = [res EXCEPT ![id] = r1]
                         /\ rput' = <<[id |-> id, item |-> NonePayload]>>
                    ELSE /\ res' = [res EXCEPT ![id] =
                                      IF r1.mode = "yield"
                                      THEN [r1 EXCEPT !.yq = Append(@, NonePayload)]
                                      ELSE r1]
                         /\ UNCHANGED rput
    /\ UNCHANGED <<backend, debug, ready, ready_ev, exit_ev, sock, call,
                   timers, tput, req_queue, req_pipe, sent, iter, got,
                   cmds, req_thread, epoch, rsock, fired, late, ninv,
                   svars, avars>>

\* the reader resumes from a yield_queue.put that blocked, once the
\* consumer has made room
GreenReaderPut ==
    /\ backend = "green"
    /\ rput # <<>>
    /\ ~QueueFull(res[rput[1].id])
    /\ res' = [res EXCEPT ![rput[1].id].yq = Append(@, rput[1].item)]
    /\ rput' = <<>>
    /\ UNCHANGED <<backend, debug, ready, ready_ev, exit_ev, sock, rpc,
                   call, results, timers, tput, req_queue, req_pipe, sent,
                   srv, rcvd, iter, got, cmds, req_thread, epoch, rsock,
                   dropped, fired, streamed, late, nres, ninv, svars, avars>>

\* ThreadingRPCClient._io_thread, the reply half of one turn of the inner
\* loop: srv_sock.recv_multipart, _parse_reply, results.pop, set_result /
\* set_exception, for the reply [req_id = id, type = tag]
ThreadingReader(id, tag) ==
    /\ backend = "threading"
    /\ rpc = "recv"
    /\ ReaderSock = "open"
    /\ SvcCanSend(id, tag)
    /\ srv' = [srv EXCEPT ![id] = tag]
    /\ streamed' = IF tag = "YIELD" THEN streamed \cup {id} ELSE streamed
    /\ rpc' = ReaderContinues
    /\ IF ReaderSkips(tag)
       THEN UNCHANGED <<results, res, dropped, nres>>
       ELSE IF id \notin results
       THEN /\ dropped' = dropped \cup {[id |-> id, tag |-> tag]}
            /\ UNCHANGED <<results, res, nres>>
       ELSE /\ results' = results \ {id}
            /\ nres' = [nres EXCEPT ![id] = @ + 1]
            /\ res' = [res EXCEPT ![id].roe = tag]
            /\ UNCHANGED dropped
    /\ UNCHANGED <<backend, debug, ready, ready_ev, exit_ev, sock, rput,
                   call, timers, tput, req_queue, req_pipe, sent, rcvd,
                   iter, got, cmds, req_thread, epoch, rsock, fired, late,
                   ninv, svars, avars>>

\* one turn of the inner loop of either reader for a frame list that
\* _parse_reply rejects (it returns None): "if reply is None: continue"
ReaderInvalid ==
    /\ rpc = "recv"
    /\ ReaderSock = "open"
    /\ backend = "green" => rput = <<>>
    /\ ninv < MaxInvalid
    /\ ninv' = ninv + 1
    /\ rpc' = ReaderContinues
    /\ UNCHANGED <<backend, debug, ready, ready_ev, exit_ev, sock, rput,
                   call, results, res, timers, tput, req_queue, req_pipe,
                   sent, srv, rcvd, iter, got, cmds, req_thread, epoch,
                   rsock, dropped, fired, streamed, late, nres, svars,
                   avars>>

\* --------------------------------------------------------- the timer

\* when the timer callback of c runs, relative to the terminal reply
FiredWhen(c) == IF TerminalSeen(c) THEN "late" ELSE "first"

\* _abort_request of GeventRPCClient.call, run by spawn_later:
\*   result = self._results.pop(req_id, None)
\*   if result: result.set_exception(RPCTimeoutError(...))
\* set_exception starts with assert(self.is_init()); is_initialized is set
\* by the reader alone, so on a result that no reply has initialised the
\* assertion fails and nothing is stored; with assertions compiled out the
\* exception is stored and "if self.is_yield" then fails on the missing
\* attribute.  Either way is_initialized stays unset.
GreenTimerFire(c) ==
    /\ backend = "green"
    /\ c \in timers
    /\ timers' = timers \ {c}
    /\ fired' = [fired EXCEPT ![c] = FiredWhen(c)]
    /\ results' = results \ {c}
    /\ IF c \notin results \/ (debug /\ ~res[c].init)
       THEN UNCHANGED <<res, tput, nres>>
       ELSE LET r1 == ResultSetException(res[c], "TIMEOUT") IN
            /\ nres' = [nres EXCEPT ![c] = @ + 1]
            /\ IF r1.mode = "yield" /\ QueueFull(r1)
               THEN /\ res' = [res EXCEPT ![c] = r1]
                    /\ tput' = tput \cup {c}
               ELSE /\ res' = [res EXCEPT ![c] =
                              IF r1.mode = "yield"
                              THEN [r1 EXCEPT !.yq = Append(@, NonePayload)]
                              ELSE r1]
                    /\ UNCHANGED tput
    /\ UNCHANGED <<backend, debug, ready, ready_ev, exit_ev, sock, rpc,
                   rput, call, req_queue, req_pipe, sent, srv, rcvd, iter,
                   got, cmds, req_thread, epoch, rsock, dropped, streamed,
                   late, ninv, svars, avars>>

\* the timer greenlet resumes from the yield_queue.put(None) of set_exception
\* that blocked, once the consumer has made room
GreenTimerPut(c) ==
    /\ backend = "green"
    /\ c \in tput
    /\ ~QueueFull(res[c])
    /\ res' = [res EXCEPT ![c].yq = Append(@, NonePayload)]
    /\ tput' = tput \ {c}
    /\ UNCHANGED <<backend, debug, ready, ready_ev, exit_ev, sock, rpc,
                   rput, call, results, timers, req_queue, req_pipe, sent,
                   srv, rcvd, iter, got, cmds, req_thread, epoch, rsock,
                   dropped, fired, streamed, late, nres, ninv, svars, avars>>

\* _abort_request of ThreadingRPCClient.call, run by the Timer thread:
\*   result = self._results.pop(req_id, None)
\*   if result is not None: result.set_exception(RPCTimeoutError(...))
ThreadingTimerFire(c) ==
    /\ backend = "threading"
    /\ c \in timers
    /\ timers' = timers \ {c}
    /\ fired' = [fired EXCEPT ![c] = FiredWhen(c)]
    /\ results' = results \ {c}
    /\ IF c \notin results
       THEN UNCHANGED <<res, nres>>
       ELSE /\ nres' = [nres EXCEPT ![c] = @ + 1]
            /\ res' = [res EXCEPT ![c].roe = "TIMEOUT"]
    /\ UNCHANGED <<backend, debug, ready, ready_ev, exit_ev, sock, rpc,
                   rput, call, tput, req_queue, req_pipe, sent, srv, rcvd,
                   iter, got, cmds, req_thread, epoch, rsock, dropped,
                   streamed, late, ninv, svars, avars>>

\* ------------------------------------------------ the caller wakes up

\* _ReturnOrYieldResult.get(): wait for is_initialized; a plain result then
\* waits for return_or_except and returns its value or raises its
\* exception; a stream raises a stored exception (_try_except), else takes
\* the handshake item off the yield queue and returns the iterator
\* self.yield_queue.get() in get(): the handshake item is taken off the
\* yield queue
HandshakeTaken(q) == Tail(q)

GreenGetEnabled(r) ==
    /\ r.init
    /\ IF r.mode = "yield" THEN r.roe # "unset" \/ r.yq # <<>>
                            ELSE r.roe # "unset"

GreenGetOutcome(r) ==
    IF r.mode = "yield" /\ r.roe = "unset" THEN "ITER" ELSE r.roe

GreenCallReturn(c) ==
    /\ backend = "green"
    /\ call[c].pc = "waiting"
    /\ GreenGetEnabled(res[c])
    /\ call' = [call EXCEPT ![c].pc = "done",
                            ![c].outcome = GreenGetOutcome(res[c])]
    /\ res' = IF GreenGetOutcome(res[c]) = "ITER"
              THEN [res EXCEPT ![c].yq = HandshakeTaken(@)]
              ELSE res
    /\ iter' = IF GreenGetOutcome(res[c]) = "ITER"
               THEN [iter EXCEPT ![c] = "open"]
               ELSE iter
    /\ UNCHANGED <<backend, debug, ready, ready_ev, exit_ev, sock, rpc,
                   rput, results, timers, tput, req_queue, req_pipe, sent,
                   srv, rcvd, got, cmds, req_thread, epoch, rsock, dropped,
                   fired, streamed, late, nres, ninv, svars, avars>>

\* ------------------------------------------------------ the iterator

\* The iterator that get() returns is client._yielder over recv_yielder.
\* An operation of the consumer on it, next() / send(v), throw(...) or
\* close(), puts a request frame with the req_id of the call and the command
\* in the place of the procedure name on the socket; the iterator then
\* waits for the next reply.
GreenIterOp(c, cmd) ==
    /\ backend = "green"
    /\ iter[c] = "open"
    /\ sock = "open"
    /\ Len(cmds) < MaxCommands
    /\ cmds' = Append(cmds, [id |-> c, cmd |-> cmd])
    /\ iter' = [iter EXCEPT ![c] = IF cmd = "YIELD_CLOSE" THEN "closing"
                                                          ELSE "waiting"]
    /\ UNCHANGED <<backend, debug, ready, ready_ev, exit_ev, sock, rpc,
                   rput, call, results, res, timers, tput, req_queue,
                   req_pipe, sent, srv, rcvd, got, req_thread, epoch,
                   rsock, dropped, fired, streamed, late, nres, ninv,
                   svars, avars>>

\* what an exception that comes out of recv_yielder does to the iterator:
\* StopIteration ends the iteration, any other exception is raised to the
\* consumer
IterAfterException(ex) == IF ex = "StopIteration" THEN "ended" ELSE "raised"

\* recv_yielder, one turn of its loop, and what the iterator does with it:
\*   obj = self.yield_queue.get(); self._try_except(); yield None, obj
\* _try_except raises the exception that set_exception stored; otherwise
\* obj is handed to the consumer as the next value (to close() it is the
\* reply that it waited for)
GreenIterTake(c) ==
    /\ backend = "green"
    /\ iter[c] \in {"waiting", "closing"}
    /\ res[c].yq # <<>>
    /\ res' = [res EXCEPT ![c].yq = Tail(@)]
    /\ IF iter[c] = "closing"
       THEN /\ iter' = [iter EXCEPT ![c] = "closed"]
            /\ UNCHANGED got
       ELSE IF res[c].roe # "unset"
       THEN /\ iter' = [iter EXCEPT ![c] = IterAfterException(res[c].roe)]
            /\ UNCHANGED got
       ELSE /\ iter' = [iter EXCEPT ![c] = "open"]
            /\ got' = [got EXCEPT ![c] = Append(@, Head(res[c].yq))]
    /\ UNCHANGED <<backend, debug, ready, ready_ev, exit_ev, sock, rpc,
                   rput, call, results, timers, tput, req_queue, req_pipe,
                   sent, srv, rcvd, cmds, req_thread, epoch, rsock,
                   dropped, fired, streamed, late, nres, ninv, svars, avars>>

\* next() on an iterator that was closed: end-of-iteration, nothing is sent
GreenIterAfterClose(c) ==
    /\ backend = "green"
    /\ iter[c] = "closed"
    /\ iter' = [iter EXCEPT ![c] = "ended"]
    /\ UNCHANGED <<backend, debug, ready, ready_ev, exit_ev, sock, rpc,
                   rput, call, results, res, timers, tput, req_queue,
                   req_pipe, sent, srv, rcvd, got, cmds, req_thread, epoch,
                   rsock, dropped, fired, streamed, late, nres, ninv,
                   svars, avars>>

\* ThreadingRPCClient.call, last step: future.result() returns the result
\* or raises the exception stored by set_exception, and the finally clause
\* cancels the timer
ThreadingCallReturn(c) ==
    /\ backend = "threading"
    /\ call[c].pc = "waiting"
    /\ res[c].roe # "unset"
    /\ call' = [call EXCEPT ![c].pc = "done", ![c].outcome = res[c].roe]
    /\ timers' = timers \ {c}
    /\ UNCHANGED <<backend, debug, ready, ready_ev, exit_ev, sock, rpc,
                   rput, results, res, tput, req_queue, req_pipe, sent,
                   srv, rcvd, iter, got, cmds, req_thread, epoch, rsock,
                   dropped, fired, streamed, late, nres, ninv, svars, avars>>

\* ------------------------------------- connect, shutdown, worker threads

\* bind / bind_ports / connect: the base class marks the client ready, the
\* subclass sets _ready_ev to wake the reader
Connect ==
    /\ sock = "open"
    /\ ready' = TRUE
    /\ ready_ev' = TRUE
    /\ UNCHANGED <<backend, debug, exit_ev, sock, rpc, rput, call, results,
                   res, timers, tput, req_queue, req_pipe, sent, srv, rcvd,
                   iter, got, cmds, req_thread, epoch, rsock, dropped,
                   fired, streamed, late, nres, ninv, svars, avars>>

\* shutdown(): _ready = False, (green: _exit_ev.set(),) _ready_ev.set(),
\* (threading: req_queue.put(None),) socket.close(), _ready_ev.clear().
\* The set wakes a reader that waits in _ready_ev.wait() although the
\* event is cleared again at once.  0 stands for the None put on req_queue.
Shutdown ==
    /\ sock = "open"
    /\ backend = "threading" => Len(req_queue) < PoolWorkers
    /\ ready' = FALSE
    /\ exit_ev' = (backend = "green")
    /\ ready_ev' = FALSE
    /\ sock' = "closed"
    /\ rpc' = IF rpc = "wait_ready" THEN "woken" ELSE rpc
    /\ req_queue' = IF backend = "threading" THEN QueuePut(req_queue, 0)
                                              ELSE req_queue
    /\ UNCHANGED <<backend, debug, rput, call, results, res, timers, tput,
                   req_pipe, sent, srv, rcvd, iter, got, cmds, req_thread,
                   epoch, rsock, dropped, fired, streamed, late, nres,
                   ninv, svars, avars>>

\* where the reader goes after _ready_ev.wait() returned and the event was
\* cleared: the green reader ends when _exit_ev is set, the I/O thread when
\* _ready is false; otherwise the inner loop runs while _ready
AfterWait(be, rdy, ex) ==
    IF be = "green"
    THEN IF ex THEN "exited" ELSE IF rdy THEN "recv" ELSE "wait_ready"
    ELSE IF rdy THEN "recv" ELSE "exited"

\* _reader / _io_thread: ready_ev.wait() returns, self._ready_ev.clear()
ReaderWake ==
    /\ rpc = "woken" \/ (rpc = "wait_ready" /\ ready_ev)
    /\ ready_ev' = FALSE
    /\ rpc' = AfterWait(backend, ready, exit_ev)
    /\ UNCHANGED <<backend, debug, ready, exit_ev, sock, rput, call,
                   results, res, timers, tput, req_queue, req_pipe, sent,
                   srv, rcvd, iter, got, cmds, req_thread, epoch, rsock,
                   dropped, fired, streamed, late, nres, ninv, svars, avars>>

\* _reader / _io_thread: recv_multipart (poll) on the closed socket raises,
\* the inner loop is left and the outer loop waits for _ready_ev again
ReaderRecvFail ==
    /\ rpc = "recv"
    /\ ReaderSock = "closed"
    /\ rpc' = "wait_ready"
    /\ UNCHANGED <<backend, debug, ready, ready_ev, exit_ev, sock, rput,
                   call, results, res, timers, tput, req_queue, req_pipe,
                   sent, srv, rcvd, iter, got, cmds, req_thread, epoch,
                   rsock, dropped, fired, streamed, late, nres, ninv,
                   svars, avars>>

\* ThreadingRPCClient._req_thread: req_queue.get() and
\* req_push.send_multipart, one request at a time
ReqThread ==
    /\ backend = "threading"
    /\ req_thread = "running"
    /\ sock = "open"
    /\ req_queue # <<>>
    /\ Head(req_queue) # 0
    /\ req_pipe' = Append(req_pipe, Head(req_queue))
    /\ req_queue' = Tail(req_queue)
    /\ UNCHANGED <<backend, debug, ready, ready_ev, exit_ev, sock, rpc,
                   rput, call, results, res, timers, tput, sent, srv, rcvd,
                   iter, got, cmds, req_thread, epoch, rsock, dropped,
                   fired, streamed, late, nres, ninv, svars, avars>>

\* ThreadingRPCClient._req_thread after shutdown(): req_queue.get() returns
\* the None that shutdown() has put, or a request that was queued before
\* it; fwd_request([None]) raises TypeError (None is no frame) and
\* fwd_request(request) raises on the closed req_push; either exception is
\* caught by "except Exception", the loop is left and the thread ends.
\* What was taken from the queue is forwarded nowhere.
ReqThreadExit ==
    /\ backend = "threading"
    /\ req_thread = "running"
    /\ req_queue # <<>>
    /\ Head(req_queue) = 0 \/ sock = "closed"
    /\ req_queue' = Tail(req_queue)
    /\ req_thread' = "exited"
    /\ UNCHANGED <<backend, debug, ready, ready_ev, exit_ev, sock, rpc,
                   rput, call, results, res, timers, tput, req_pipe, sent,
                   srv, rcvd, iter, got, cmds, epoch, rsock, dropped,
                   fired, streamed, late, nres, ninv, svars, avars>>

\* reset() of the endpoint, on a client that was not shut down: the socket
\* is closed and a new one is created in its place; bind or connect has to
\* be called again
MaxResets == 1

Reset ==
    /\ sock = "open"
    /\ epoch < MaxResets
    /\ epoch' = epoch + 1
    /\ ready' = FALSE
    /\ UNCHANGED <<backend, debug, ready_ev, exit_ev, sock, rpc, rput,
                   call, results, res, timers, tput, req_queue, req_pipe,
                   sent, srv, rcvd, iter, got, cmds, req_thread, rsock,
                   dropped, fired, streamed, late, nres, ninv, svars, avars>>

\* ThreadingRPCClient._io_thread, the request half of one turn of the
\* inner loop: req_pull.recv_multipart and srv_sock.send_multipart
ThreadingIoSend ==
    /\ backend = "threading"
    /\ rpc = "recv"
    /\ ReaderSock = "open"
    /\ req_pipe # <<>>
    /\ sent' = Append(sent, Head(req_pipe))
    /\ req_pipe' = Tail(req_pipe)
    /\ UNCHANGED <<backend, debug, ready, ready_ev, exit_ev, sock, rpc,
                   rput, call, results, res, timers, tput, req_queue, srv,
                   rcvd, iter, got, cmds, req_thread, epoch, rsock,
                   dropped, fired, streamed, late, nres, ninv, svars, avars>>

\* ------------------------------------------------ the client, assembled

NextClient ==
    \/ \E c \in Calls, ig \in BOOLEAN, to \in Timeouts : GreenCall(c, ig, to)
    \/ \E c \in Calls, ig \in BOOLEAN, to \in Timeouts : ThreadingCall(c, ig, to)
    \/ \E c \in Calls : ThreadingCallTimer(c)
    \/ \E c \in Calls : ThreadingCallRegister(c)
    \/ \E c \in Calls, tag \in ReplyTags : GreenReader(c, tag)
    \/ GreenReaderPut
    \/ \E c \in Calls, tag \in ReplyTags : ThreadingReader(c, tag)
    \/ ReaderInvalid
    \/ \E c \in Calls : GreenTimerFire(c)
    \/ \E c \in Calls : ThreadingTimerFire(c)
    \/ \E c \in Calls : GreenCallReturn(c)
    \/ \E c \in Calls : ThreadingCallReturn(c)
    \/ Connect
    \/ Shutdown
    \/ ReaderWake
    \/ ReaderRecvFail
    \/ ReqThread
    \/ ThreadingIoSend

\* the public API of the service and the remote handles are not used
NoApi ==
    /\ procedures = <<>>
    /\ listening = FALSE
    /\ api = <<>>
    /\ napi = 0
    /\ msg_list = <<>>
    /\ parsed = <<>>
    /\ method = <<>>
    /\ chain = <<>>
    /\ given = <<>>
    /\ issued = <<>>

\* the client is run on its own: no service object exists
NoService ==
    /\ svc = "none"
    /\ req = <<>>
    /\ hpc = <<>>
    /\ wire = <<>>
    /\ res_queue = <<>>
    /\ res_pipe = <<>>
    /\ idents = "None"
    /\ msg_id = "None"
    /\ yield_send_queues = <<>>
    /\ ncmd = 0
    /\ stray = <<>>
    /\ gene = <<>>
    /\ thrown = <<>>

InitClient == CInit /\ NoService /\ NoApi

SpecClient == InitClient /\ [][NextClient]_vars

\* the same client with its threads, greenlets, timers and callers running
\* whenever they can: no step that stays possible is put off for ever
SpecClientLive == SpecClient /\ WF_vars(NextClient)

\* the client with the end of the request thread after shutdown()
NextWorkers ==
    \/ NextClient
    \/ ReqThreadExit

SpecWorkers == InitClient /\ [][NextWorkers]_vars

\* every thread and greenlet of the client gets to run
SpecWorkersLive == SpecWorkers /\ WF_vars(NextWorkers)

\* the client with reset()
NextReset ==
    \/ NextClient
    \/ Reset

SpecReset == InitClient /\ [][NextReset]_vars /\ WF_vars(NextReset)

\* ------------------------------------------------ the green client and
\* its iterators: calls without ignore and without timeout that a service
\* may answer with a stream

NextStream ==
    \/ Connect
    \/ \E c \in Calls : GreenCall(c, FALSE, "none")
    \/ ReaderWake
    \/ \E c \in Calls, tag \in StreamTags : GreenReader(c, tag)
    \/ GreenReaderPut
    \/ \E c \in Calls : GreenCallReturn(c)
    \/ \E c \in Calls, cmd \in YieldCommands : GreenIterOp(c, cmd)
    \/ \E c \in Calls : GreenIterTake(c)
    \/ \E c \in Calls : GreenIterAfterClose(c)

InitStream == CInit /\ backend = "green" /\ NoService /\ NoApi

SpecStream == InitStream /\ [][NextStream]_vars

(***************************************************************************)
(* Properties of the client.                                               *)
(***************************************************************************)

\* the call was refused by the checks at the head of call()
PreFailed(c) == call[c].outcome \in {"TypeError", "RuntimeError"}

\* a call made without ignore that passed the checks, i.e. one that waits
\* for a result; generator streams (a YIELD was received) are set apart
Tracked(c) == call[c].pc # "idle" /\ ~call[c].ignore /\ ~PreFailed(c)

PlainCall(c) == Tracked(c) /\ c \notin streamed

\* the request of call c has been handed to the send path
Handed(c) ==
    \/ OnWire(c)
    \/ \E i \in 1..Len(req_queue) : req_queue[i] = c
    \/ \E i \in 1..Len(req_pipe) : req_pipe[i] = c

\* the caller blocked in result.get() / future.result() can return
CallerCanWake(c) ==
    IF backend = "green" THEN GreenGetEnabled(res[c])
                         ELSE res[c].roe # "unset"

\* C1: every call made without ignore is resolved exactly once, with OK,
\* FAIL or TIMEOUT: a terminal outcome is stored for it at most once, and
\* once its terminal reply or its timer has been processed exactly one
\* outcome is stored.
C1_ResolvedExactlyOnce ==
    \A c \in Calls :
        PlainCall(c) =>
            /\ nres[c] <= 1
            /\ (TerminalSeen(c) \/ fired[c] # "no") =>
                   /\ nres[c] = 1
                   /\ res[c].roe \in {"OK", "FAIL", "TIMEOUT"}

\* C2: whenever the reader processes the terminal reply of a request that
\* was sent without ignore and has not timed out, its pending result is
\* registered: every terminal reply that was dropped as an orphan belongs
\* to an ignore call or to a call whose timer had already run.
C2_RegisteredBeforeReply ==
    \A d \in dropped :
        d.tag \in {"OK", "FAIL"} =>
            call[d.id].ignore \/ fired[d.id] = "first"

\* C3: when the timer of a call with a positive timeout runs before any
\* terminal reply of the call was processed, the pending entry is gone, the
\* result holds the timeout error, and the caller has raised the timeout
\* error or is able to wake up and raise it.
C3_TimeoutWakesCaller ==
    \A c \in Calls :
        (PlainCall(c) /\ call[c].timeout = "pos" /\ fired[c] = "first") =>
            /\ c \notin results
            /\ res[c].roe = "TIMEOUT"
            /\ call[c].pc = "done" => call[c].outcome = "TIMEOUT"
            /\ call[c].pc # "done" => CallerCanWake(c)

\* a call made after an earlier call timed out, without a timer of its own,
\* completes with its own reply once that reply has been received
LaterCallCompletes(c) ==
    (c \in late /\ PlainCall(c) /\ ~TimerWanted(call[c].timeout)
       /\ TerminalSeen(c)) =>
        /\ res[c].roe = srv[c]
        /\ call[c].pc = "done" => call[c].outcome = srv[c]

\* the step receives the terminal reply of a call that had timed out
LateReplyStep(c) ==
    /\ PlainCall(c)
    /\ fired[c] = "first"
    /\ ~TerminalSeen(c)
    /\ TerminalSeen(c)'

\* C4: a reply that arrives for a req_id after its call timed out is
\* dropped and changes no pending result, and the calls made afterwards
\* complete with their own replies.
C4_LateReplyDropped ==
    [][ \A c \in Calls :
          /\ LateReplyStep(c) =>
                /\ dropped' = dropped \cup {[id |-> c, tag |-> srv'[c]]}
                /\ UNCHANGED <<results, res, call, timers>>
          /\ LaterCallCompletes(c)' ]_vars

\* what holds of an ignore call from the moment call() returned
IgnoreReturned(c) ==
    (call[c].pc # "idle" /\ call[c].ignore /\ ~PreFailed(c)) =>
        /\ call[c].pc = "done"
        /\ call[c].outcome = "None"
        /\ Handed(c)
        /\ c \notin results
        /\ c \notin timers
        /\ res[c] = NewResult
        /\ nres[c] = 0

\* the step receives a reply to the request of an ignore call
IgnoreReplyStep(c) == call[c].ignore /\ srv'[c] # srv[c]

CallStep(c) == call[c].pc = "idle" /\ call'[c].pc # "idle"

\* C6 as amended: a call whose timeout is neither None nor a number fails
\* with TypeError, whether or not the client is ready; a call with a valid
\* timeout made while the client is not ready (before bind/connect, after
\* shutdown) fails with RuntimeError; a call that fails either way has
\* returned, and it sends nothing, schedules no timer and leaves the pending
\* table unchanged.
C6_CallChecks ==
    [][ \A c \in Calls :
          CallStep(c) =>
            /\ call'[c].timeout = "bad" => call'[c].outcome = "TypeError"
            /\ (call'[c].timeout # "bad" /\ ~ready) =>
                   call'[c].outcome = "RuntimeError"
            /\ (call'[c].timeout # "bad" /\ ready) => ~PreFailed(c)'
            /\ PreFailed(c)' =>
                   /\ call'[c].pc = "done"
                   /\ UNCHANGED <<sent, req_queue, req_pipe, timers, tput,
                                  results, res>> ]_vars

\* a call with a non-numeric timeout made while the client was not ready
\* got TypeError, and a call with a valid timeout made while the client was
\* not ready got RuntimeError
C6_Witness ==
    \E c \in Calls, d \in Calls :
        /\ call[c].outcome = "TypeError"
        /\ ~call[c].wasready
        /\ call[d].outcome = "RuntimeError"

\* C6 as written: every call made while the client is not ready fails with
\* the state error (RuntimeError), and every call with a non-numeric timeout
\* fails with the configuration error (TypeError).
C6_AsWritten ==
    \A c \in Calls :
        call[c].pc # "idle" =>
            /\ ~call[c].wasready => call[c].outcome = "RuntimeError"
            /\ call[c].timeout = "bad" => call[c].outcome = "TypeError"


\* the first reply other than ACK that was received for call c was a YIELD,
\* it found the pending result of the call, and the caller returned on it:
\* no timer of the call ran and no later reply was received
YieldAnswered(c) ==
    /\ Tracked(c)
    /\ call[c].pc = "done"
    /\ c \in streamed
    /\ [id |-> c, tag |-> "YIELD"] \notin dropped
    /\ srv[c] = "YIELD"
    /\ fired[c] = "no"

\* C18: in the green and in the threading client, a call whose first reply
\* other than ACK is a YIELD returns a streaming iterator: it does not raise
\* and does not return the payload of the YIELD.
C18_YieldGivesIterator ==
    \A c \in Calls : YieldAnswered(c) => call[c].outcome = "ITER"

\* the caller of c is blocked on its pending result
Blocked(c) == Tracked(c) /\ call[c].pc = "waiting"

\* C20: a caller that is blocked on a pending result when the client has
\* been shut down eventually wakes up.
C20_ShutdownWakesCallers ==
    \A c \in Calls :
        (Blocked(c) /\ sock = "closed") ~> (call[c].pc = "done")

\* every reply received for the stream of call c has been handed to the
\* consumer of its iterator, which is not inside close()
Consumed(c) ==
    /\ res[c].mode = "yield"
    /\ iter[c] \in {"open", "ended", "raised"}
    /\ res[c].yq = <<>>
    /\ rput = <<>> \/ rput[1].id # c

\* C19: on a stream, a terminal OK reaches the consumer as end-of-iteration
\* (not as one more value, as the payload of a YIELD does), a FAIL whose
\* ename is StopIteration reaches it as end-of-iteration too, and any other
\* FAIL is raised.
C19_StreamTerminal ==
    \A c \in Calls :
        Consumed(c) =>
            /\ srv[c] = "OK" => iter[c] = "ended"
            /\ (srv[c] = "FAIL" /\ res[c].roe = "StopIteration") =>
                   iter[c] = "ended"
            /\ (srv[c] = "FAIL" /\ res[c].roe # "StopIteration") =>
                   iter[c] = "raised"

\* a step in which a reader receives the ACK of a request
AckStep == \E c \in Calls : srv[c] = "none" /\ srv'[c] = "ACK"

\* a step in which a reader receives a frame list that is no reply
InvalidStep == ninv' = ninv + 1

C29_Step ==
    (AckStep \/ InvalidStep) =>
        /\ results' = results
        /\ res' = res
        /\ nres' = nres
        /\ call' = call
        /\ rput' = rput
        /\ dropped' = dropped
        /\ rpc' = ReaderContinues

\* C29: when a reader (of the green or of the threading client) receives a
\* frame list that does not parse as a reply, or an ACK, whether or not its
\* req_id is pending, it resolves no pending result, leaves the table of
\* pending results as it was and goes on reading; no call completes in a
\* step that receives an ACK.
C29_InvalidAndAckSkipped == [][C29_Step]_vars

\* a frame list has been rejected, the ACK of a pending call and the ACK of
\* a request that is not pending have been received, and the caller of the
\* pending call is still waiting
C29_Witness ==
    /\ ninv = MaxInvalid
    /\ \E c, d \in Calls :
          /\ srv[c] = "ACK" /\ c \in results /\ call[c].pc = "waiting"
          /\ srv[d] = "ACK" /\ d \notin results

\* ------------------------------------------------ the send path of the
\* threading client

IsRequest(x) == x # 0

\* the requests between call() and the service, oldest first: those sent on
\* the DEALER socket, those in the inproc pipe, those in req_queue
SendPath == sent \o req_pipe \o SelectSeq(req_queue, IsRequest)

\* call() of c has put its request on req_queue
Enqueued(c) == call[c].pc # "idle" /\ ~PreFailed(c)

InOrder(s) == \A i \in 1..Len(s), j \in 1..Len(s) : i < j => s[i] < s[j]

OnSendPath == {SendPath[i] : i \in 1..Len(SendPath)}

\* the step puts something on the service socket or takes a reply from it
SocketStep == sent' # sent \/ srv' # srv \/ ninv' # ninv

\* the I/O thread sends and receives alone, one whole request at a time
SingleSender ==
    SocketStep =>
        /\ rpc = "recv"
        /\ UNCHANGED <<call, req_queue, req_thread>>
        /\ sent' # sent =>
              /\ req_pipe # <<>>
              /\ sent' = Append(sent, Head(req_pipe))
              /\ req_pipe' = Tail(req_pipe)

\* C31 as amended: in the threading client only the I/O thread sends on and
\* receives from the service socket; the requests of concurrent callers go
\* through req_queue and the pipe and reach the socket one whole request at
\* a time, in the order in which they were enqueued and none of them twice;
\* until shutdown() is called none is lost (every enqueued request is in
\* the queue, in the pipe or sent), and what shutdown() finds still queued
\* may be discarded but is never sent out of order.
C31_SerialisedUntilShutdown ==
    [][ backend = "threading" =>
          /\ SingleSender
          /\ InOrder(SendPath')
          /\ OnSendPath' \subseteq {c \in Calls : Enqueued(c)'}
          /\ sock' = "open" => OnSendPath' = {c \in Calls : Enqueued(c)'}
      ]_vars

\* C31 as the specification words it: no request is ever lost
C31_AsWritten ==
    [][ backend = "threading" =>
          /\ SingleSender
          /\ InOrder(SendPath')
          /\ OnSendPath' = {c \in Calls : Enqueued(c)'} ]_vars

\* two callers were blocked in call() at the same time and their requests
\* have both reached the socket, in the order of their req_queue.put
C31_Witness ==
    /\ backend = "threading"
    /\ sent = <<1, 2>>
    /\ \A c \in Calls : call[c].pc \in {"queued", "armed", "waiting"}

\* ------------------------------------------------ the workers of the
\* client after shutdown()

\* the reader greenlet / the I/O thread has ended, and so has the request
\* thread of the threading client
WorkersExited ==
    /\ rpc = "exited"
    /\ backend = "threading" => req_thread = "exited"

\* C34: after shutdown() of a client its background workers exit in the
\* end, whatever they were doing when it was called: the reader greenlet of
\* the green client, the request thread and the I/O thread of the threading
\* client.
C34_WorkersExit == (sock = "closed") ~> WorkersExited

\* ------------------------------------------------ the reader after reset()

\* the reader is in its receive loop on the socket the client has now
ReaderOnCurrent == rpc = "recv" /\ rsock = epoch /\ sock = "open"

\* C35: after the socket of a client was closed and created anew by reset()
\* and bind or connect was called again, the reader leaves its idle state
\* and receives from the socket the client has now (unless the client is
\* shut down first).
C35_ReaderResumes ==
    (epoch > 0 /\ ready) ~> (ReaderOnCurrent \/ sock = "closed")
(***************************************************************************)
(* Part II.  The service.                                                  *)
(*                                                                         *)
(* A request is [route, "|", req_id, name, args..., ignore].  The accept   *)
(* loop hands each request to a handler of its own (a greenlet, a pool     *)
(* thread, an IOLoop callback); a handler parses the request, acknowledges *)
(* it, calls the procedure, which may suspend, and replies.                *)
(***************************************************************************)

\* the service classes
ServiceBackends == {"green", "threading", "tornado", "zpyrpc"}

\* the services that speak the ACK / ignore protocol
AckBackends == {"green", "threading"}

\* route prefixes (DEALER identities) of the clients
Routes == {"A", "B"}

\* the procedure table: echo returns its argument, boom raises
\* ValueError("boom"), boomu raises ValueError(u"boom\xe9"), a unicode
\* message outside ASCII, gen returns a generator that yields GenLen values
\* and returns, genx a generator that yields one value and then raises
\* ValueError("boom"), genu one that yields one value and then raises
\* ValueError(u"boom\xe9")
Procedures == {"echo", "boom", "boomu", "gen", "genx", "genu"}

\* the procedure names of the requests; "nosuch" is not registered
ProcNames == {"echo", "boom", "boomu", "gen", "genx", "nosuch"}

NoReq == [route |-> "none", id |-> 0, name |-> "none", ignore |-> FALSE,
          decodable |-> TRUE, parses |-> TRUE]

SInit ==
    /\ svc \in ServiceBackends
    /\ req = [r \in Reqs |-> NoReq]
    /\ hpc = [r \in Reqs |-> "none"]
    /\ wire = <<>>
    /\ res_queue = <<>>
    /\ res_pipe = <<>>
    /\ idents = "None"
    /\ msg_id = "None"
    /\ yield_send_queues = [r \in Reqs |-> "absent"]
    /\ ncmd = 0
    /\ stray = <<>>
    /\ gene = [r \in Reqs |-> 0]
    /\ thrown = [r \in Reqs |-> "TypeError"]

\* the service is run on its own: the client object is never used
NoClient ==
    /\ backend = "none"
    /\ debug = TRUE
    /\ ready = FALSE
    /\ ready_ev = FALSE
    /\ exit_ev = FALSE
    /\ sock = "closed"
    /\ rpc = "none"
    /\ rput = <<>>
    /\ call = <<>>
    /\ results = {}
    /\ res = <<>>
    /\ timers = {}
    /\ tput = {}
    /\ req_queue = <<>>
    /\ req_pipe = <<>>
    /\ sent = <<>>
    /\ rcvd = 0
    /\ iter = <<>>
    /\ got = <<>>
    /\ cmds = <<>>
    /\ req_thread = "none"
    /\ epoch = 0
    /\ rsock = 0
    /\ srv = <<>>
    /\ dropped = {}
    /\ fired = <<>>
    /\ streamed = {}
    /\ late = {}
    /\ nres = <<>>
    /\ ninv = 0

\* ------------------------------------------------------ exceptions

\* the exception objects that a handler meets: class name, message, and
\* whether str() of the exception succeeds (Python 2: str() of an exception
\* whose message is a unicode string outside ASCII raises
\* UnicodeEncodeError)
Exc(ename, msg, ascii) == [ename |-> ename, msg |-> msg, ascii |-> ascii]

NoExc == Exc("none", <<>>, TRUE)

\* "%r" % name for a procedure name, a string of identifier characters and
\* dots: the name between single quotes
Repr(name) == <<"'", name, "'">>

\* NotImplementedError("Unregistered procedure %r" % name)
Unregistered(name) ==
    Exc("NotImplementedError", <<"Unregistered procedure ">> \o Repr(name),
        TRUE)

\* the exception raised by deserialize_args_kwargs on frames it cannot decode
DecodeError == Exc("DecodeError", <<"cannot decode">>, TRUE)

\* what calling a registered procedure does: it returns a value, returns a
\* generator, or raises
ProcRaises(name) ==
    CASE name = "boom"  -> Exc("ValueError", <<"boom">>, TRUE)
      [] name = "boomu" -> Exc("ValueError", <<"boom", "\\xe9">>, FALSE)
      [] OTHER          -> NoExc

ProcReturnsGenerator(name) == name \in {"gen", "genx", "genu"}

\* the i-th value that a generator yields: the first is None
GenValue(i) == IF i = 1 THEN <<"None">> ELSE <<"v", i>>

\* the exception that a YIELD_THROW command names: TypeError("spam")
Thrown == Exc("TypeError", <<"spam">>, TRUE)

\* gene.send(args) on a generator that has yielded n values: the next value,
\* or the exception that ends the generator (StopIteration when it returns)
GeneSend(name, n) ==
    IF name = "gen"
    THEN IF n < GenLen THEN [raised |-> NoExc, value |-> GenValue(n + 1)]
         ELSE [raised |-> Exc("StopIteration", <<>>, TRUE), value |-> <<>>]
    ELSE IF n < 1 THEN [raised |-> NoExc, value |-> GenValue(1)]
    ELSE IF name = "genu" THEN [raised |-> ProcRaises("boomu"), value |-> <<>>]
    ELSE [raised |-> Exc("ValueError", <<"boom">>, TRUE), value |-> <<>>]

\* gene.throw(ex_class, evalue): the generators do not catch, the exception
\* comes back out of the generator
GeneThrow(name, n) == [raised |-> Thrown, value |-> <<>>]

\* the names that the arguments of a YIELD_THROW request may carry: a class
\* of the module exceptions, a name that the module does not have, and an
\* attribute of the module that is no class
ThrowNames == {"TypeError", "NoSuchError", "__doc__"}

\* ex_class = getattr(exceptions, args[0], Exception)
ExClass(ename) ==
    CASE ename = "TypeError" -> "TypeError"
      [] ename = "__doc__"   -> "str"
      [] OTHER               -> "Exception"

\* gene.throw(ex_class, evalue): a class is raised inside the generator and
\* comes back out of it; a string is refused by throw itself with TypeError
ThrowNamed(ename) ==
    IF ExClass(ename) = "str"
    THEN Exc("TypeError",
             <<"exceptions must be classes, or instances, not str">>, TRUE)
    ELSE Exc(ExClass(ename), <<"spam">>, TRUE)

\* ------------------------------------------------------ parsing

\* RPCServiceBase._parse_request of netcall/service.py, the value of
\* request['error']: an unregistered name gives NotImplementedError, and an
\* exception from deserialize_args_kwargs then overwrites it
ParseError(rq) ==
    IF ~rq.decodable THEN DecodeError
    ELSE IF rq.name \notin Procedures THEN Unregistered(rq.name)
    ELSE NoExc

\* RPCServiceBase._parse_request of netcall/service.py raises itself when
\* the arguments do not decode: args and kwargs were never bound when the
\* request dict is built (UnboundLocalError)
ParseCrashes(rq) == ~rq.decodable

\* a handler that goes on with a frame list that is no request
ParseFailsNever(rq) == FALSE

\* "if len(msg_list) < 5 or b'|' not in msg_list: return None" of
\* _parse_request, and "if req is None: return" of the handlers
ParseFails(rq) == ~rq.parses

\* _parse_request of the base class of the green and the threading
\* service: the lookup of the name in the procedure table comes first, a
\* decode error is attached when the name is registered
ParseErrorAck(rq) ==
    IF rq.name \notin Procedures THEN Unregistered(rq.name)
    ELSE IF ~rq.decodable THEN DecodeError
    ELSE NoExc

\* ------------------------------------------------------ replies

\* a result queue that hands out the newest reply first
SendReplyFront(q, reply) == <<reply>> \o q


\* a driver that leaves the entry of its req_id in the table
DelEntryNever(q, r) == q

\* the lookup of an unknown req_id without the check
UnknownGeneratorKeyError ==
    Exc("KeyError", <<"req_id">>, TRUE)

\* a result queue that takes every reply twice
SendReplyTwice(q, reply) == Append(Append(q, reply), reply)

\* RPCServiceBase._build_reply(request, status, data) of netcall/service.py:
\* route and msg_id are taken from the request the handler holds; "by" names
\* the request that the handler holds, "cmd" whether that request is a
\* YIELD_* command with the req_id of request r or the call itself
BuildReply(r, status, data) ==
    [route |-> req[r].route, id |-> req[r].id, tag |-> status,
     data |-> data, by |-> r, cmd |-> FALSE]

\* RPCServiceBase._build_reply(status, data) of zpyrpc/service.py: route and
\* msg_id are taken from the attributes of the service object
ZBuildReply(r, status, data) ==
    [route |-> idents, id |-> msg_id, tag |-> status, data |-> data,
     by |-> r, cmd |-> FALSE]

\* reply.extend(self.idents) raises TypeError when self.idents is None
ZBuildRaises == idents = "None"

\* the data of a FAIL reply: 'ename': str(etype.__name__),
\* 'evalue': str(evalue)
FailData(ex) == [ename |-> ex.ename, evalue |-> ex.msg]

\* _send_fail / _send_error raise themselves when str(evalue) does
SendFailRaises(ex) == ~ex.ascii

\* the data of ACK, OK and YIELD replies
AckData == [ename |-> "", evalue |-> <<"service_id">>]

OkData(name) == [ename |-> "", evalue |-> <<"result of ", name>>]

NoneData == [ename |-> "", evalue |-> <<"None">>]

\* the status words: zpyrpc says SUCCESS and FAILURE for OK and FAIL
OkTag == IF svc = "zpyrpc" THEN "SUCCESS" ELSE "OK"

FailTag == IF svc = "zpyrpc" THEN "FAILURE" ELSE "FAIL"

\* ThreadingRPCService._send_reply: self.res_queue.put(reply)
SendReply(q, reply) == Append(q, reply)

\* does _send_reply block: the result queue is full
SendBlocks(replies) ==
    svc = "threading" /\ replies # <<>> /\ Len(res_queue) >= ServicePoolWorkers

\* the handler sends the replies (none or one): on the socket, or in the
\* threading service down the result queue
Send(replies) ==
    IF svc = "threading"
    THEN /\ res_queue' = IF replies = <<>> THEN res_queue
                         ELSE SendReply(res_queue, replies[1])
         /\ UNCHANGED wire
    ELSE /\ wire' = wire \o replies
         /\ UNCHANGED res_queue

\* ------------------------------------------------------ the accept loop

\* requests arrive in the order of their req_ids
IsNextReq(r) == IF r = 1 THEN TRUE ELSE hpc[r-1] # "none"

\* the request frames with req_id r are on the ROUTER socket: when a client
\* is part of the run, it has sent them
ReqArrived(r) == backend = "none" \/ OnWire(r)

\* the next YIELD_* request on the ROUTER socket is the command cmd with
\* req_id r: when a client is part of the run, one of its iterators has
\* sent it and the commands before it have been received
CmdArrived(r, cmd) ==
    \/ backend = "none"
    \/ /\ ncmd < Len(cmds)
       /\ cmds[ncmd + 1] = [id |-> r, cmd |-> cmd]

\* receive_reply / io_thread / on_recv: recv_multipart and the spawn of a
\* handler for the request (gevent.spawn, pool.schedule, the callback)
SvcRecv(r, route, name, ig, dec) ==
    /\ svc \in ServiceBackends
    /\ hpc[r] = "none"
    /\ IsNextReq(r)
    /\ ReqArrived(r)
    /\ req' = [req EXCEPT ![r] = [route |-> route, id |-> r, name |-> name,
                                  ignore |-> ig, decodable |-> dec,
                                  parses |-> TRUE]]
    /\ hpc' = [hpc EXCEPT ![r] = "spawned"]
    /\ UNCHANGED <<cvars, svc, wire, res_queue, res_pipe, idents, msg_id,
                   yield_send_queues, ncmd, stray, gene, thrown, avars>>

\* the same for a frame list that is no request: it has no separator b'|'
\* or it has fewer frames than a request; it is the r-th frame list received
SvcRecvInvalid(r) ==
    /\ svc \in ServiceBackends
    /\ hpc[r] = "none"
    /\ IsNextReq(r)
    /\ ReqArrived(r)
    /\ req' = [req EXCEPT ![r] = [NoReq EXCEPT !.id = r, !.parses = FALSE]]
    /\ hpc' = [hpc EXCEPT ![r] = "spawned"]
    /\ UNCHANGED <<cvars, svc, wire, res_queue, res_pipe, idents, msg_id,
                   yield_send_queues, ncmd, stray, gene, thrown, avars>>

\* ------------------------------------------------------ the handlers

\* GeventRPCService._handle_request and ThreadingRPCService._handle_request
\* up to the call of the procedure: _parse_request and _send_ack
AckHandleStart(r) ==
    /\ svc \in AckBackends
    /\ hpc[r] = "spawned"
    /\ IF ParseFails(req[r])
       THEN /\ hpc' = [hpc EXCEPT ![r] = "done"]
            /\ UNCHANGED <<wire, res_queue>>
       ELSE /\ ~SendBlocks(<<BuildReply(r, "ACK", AckData)>>)
            /\ Send(<<BuildReply(r, "ACK", AckData)>>)
            /\ hpc' = [hpc EXCEPT ![r] = "running"]
    /\ UNCHANGED <<cvars, svc, req, res_pipe, idents, msg_id,
                   yield_send_queues, ncmd, stray, gene, thrown, avars>>

\* the exception met in the try block of _handle_request: the parse error,
\* or what the procedure raises
AckRaised(rq) ==
    IF ParseErrorAck(rq) # NoExc THEN ParseErrorAck(rq)
    ELSE ProcRaises(rq.name)

\* a handler that does not look at the ignore flag after the try block
AckFinishRepliesNoIgnore(r) ==
    LET rq == req[r]
        ex == AckRaised(rq) IN
    IF ex # NoExc
    THEN IF SendFailRaises(ex) THEN <<>>
         ELSE <<BuildReply(r, "FAIL", FailData(ex))>>
    ELSE IF ProcReturnsGenerator(rq.name) /\ svc = "green"
    THEN <<BuildReply(r, "YIELD", NoneData)>>
    ELSE <<BuildReply(r, "OK", OkData(rq.name))>>

\* what the handler sends after the try block, as a sequence of none or
\* one reply:
\*   except Exception: not ignore and self._send_fail(req)
\*   else: (green) if ignore: return; a generator starts the driver
\*         (threading) not ignore and self._send_ok(req, res)
AckFinishReplies(r) ==
    LET rq == req[r]
        ex == AckRaised(rq) IN
    IF rq.ignore THEN <<>>
    ELSE IF ex # NoExc
    THEN IF SendFailRaises(ex) THEN <<>>
         ELSE <<BuildReply(r, "FAIL", FailData(ex))>>
    ELSE IF ProcReturnsGenerator(rq.name) /\ svc = "green"
    THEN <<BuildReply(r, "YIELD", NoneData)>>
    ELSE <<BuildReply(r, "OK", OkData(rq.name))>>

\* where the handler is after the try block: it ended, it was ended by an
\* exception of _send_fail, or it drives a generator
AckFinishPc(r) ==
    LET rq == req[r]
        ex == AckRaised(rq) IN
    IF ex # NoExc
    THEN IF ~rq.ignore /\ SendFailRaises(ex) THEN "died" ELSE "done"
    ELSE IF ~rq.ignore /\ ProcReturnsGenerator(rq.name) /\ svc = "green"
    THEN "driving"
    ELSE "done"

\* GeventRPCService._handle_request and ThreadingRPCService._handle_request
\* from the call of the procedure on
AckHandleFinish(r) ==
    /\ svc \in AckBackends
    /\ hpc[r] = "running"
    /\ ~SendBlocks(AckFinishReplies(r))
    /\ Send(AckFinishReplies(r))
    /\ hpc' = [hpc EXCEPT ![r] = AckFinishPc(r)]
    /\ yield_send_queues' =
           IF AckFinishPc(r) = "driving"
           THEN [yield_send_queues EXCEPT ![r] = "empty"]
           ELSE yield_send_queues
    /\ UNCHANGED <<cvars, svc, req, res_pipe, idents, msg_id, ncmd, stray,
                   gene, thrown, avars>>

\* the data of a YIELD reply that carries a value
YieldData(v) == [ename |-> "", evalue |-> v]

\* raise ValueError('req_id does not refer to a known generator')
UnknownGenerator ==
    Exc("ValueError", <<"req_id does not refer to a known generator">>, TRUE)

\* a reply of the handler of a YIELD_* command with the req_id of request r
CmdReply(r, status, data) ==
    [BuildReply(r, status, data) EXCEPT !.cmd = TRUE]

\* GeventRPCService._handle_request for a YIELD_SEND / YIELD_THROW /
\* YIELD_CLOSE request with the req_id of a live generator: _send_ack and
\* the put of the command in the generator's Queue(1) (which blocks while
\* it is full)
GreenYieldRequest(r, cmd) ==
    /\ svc = "green"
    /\ hpc[r] # "none"
    /\ yield_send_queues[r] = "empty"
    /\ ncmd < MaxCommands
    /\ CmdArrived(r, cmd)
    /\ ncmd' = ncmd + 1
    /\ wire' = Append(wire, CmdReply(r, "ACK", AckData))
    /\ yield_send_queues' = [yield_send_queues EXCEPT ![r] = cmd]
    /\ UNCHANGED <<cvars, svc, req, hpc, res_queue, res_pipe, idents,
                   msg_id, stray, gene, thrown, avars>>

\* the same for a YIELD_THROW request whose arguments name the class ename
GreenYieldThrow(r, ename) ==
    /\ svc = "green"
    /\ hpc[r] # "none"
    /\ yield_send_queues[r] = "empty"
    /\ ncmd < MaxCommands
    /\ CmdArrived(r, "YIELD_THROW")
    /\ ncmd' = ncmd + 1
    /\ wire' = Append(wire, CmdReply(r, "ACK", AckData))
    /\ yield_send_queues' = [yield_send_queues EXCEPT ![r] = "YIELD_THROW"]
    /\ thrown' = [thrown EXCEPT ![r] = ename]
    /\ UNCHANGED <<cvars, svc, req, hpc, res_queue, res_pipe, idents,
                   msg_id, stray, gene, avars>>

\* GeventRPCService._handle_request for a YIELD_* request whose req_id is
\* not in yield_send_queues: _send_ack, ValueError is raised, and the except
\* clause sends it as a FAIL unless ignore is set
GreenYieldUnknown(r, cmd, ig) ==
    /\ svc = "green"
    /\ hpc[r] # "none"
    /\ yield_send_queues[r] = "absent"
    /\ Len(stray) < MaxStray
    /\ stray' = Append(stray, [id |-> req[r].id, ignore |-> ig])
    /\ wire' = wire \o <<CmdReply(r, "ACK", AckData)>> \o
                (IF ig THEN <<>>
                 ELSE <<CmdReply(r, "FAIL", FailData(UnknownGenerator))>>)
    /\ UNCHANGED <<cvars, svc, req, hpc, res_queue, res_pipe, idents,
                   msg_id, yield_send_queues, ncmd, gene, thrown, avars>>

\* finally: del self.yield_send_queues[req['req_id']]
DelEntry(q, r) == [q EXCEPT ![r] = "absent"]

\* a driver that answers YIELD_CLOSE as it answers a value
CloseReplyYield(r) == BuildReply(r, "YIELD", NoneData)

\* YIELD_CLOSE: gene.close(); self._send_ok(req, None)
CloseReply(r) == BuildReply(r, "OK", NoneData)

\* what the generator does with the command that the driver took from the
\* queue
GeneStep(r) ==
    IF yield_send_queues[r] = "YIELD_SEND"
    THEN GeneSend(req[r].name, gene[r])
    ELSE IF thrown[r] = "TypeError"
    THEN GeneThrow(req[r].name, gene[r])
    ELSE [raised |-> ThrowNamed(thrown[r]), value |-> <<>>]

\* the generator driver of GeventRPCService._handle_request, one turn of
\* its loop.  YIELD_SEND and YIELD_THROW: the value that the generator
\* yields is sent as a YIELD; an exception of the generator, StopIteration
\* of a generator that returned included, is caught by the bare except and
\* sent by _send_fail; when _send_fail raises itself, nothing is sent and
\* its exception ends the handler.  YIELD_CLOSE: gene.close() and
\* _send_ok(req, None).  On leaving the loop the finally clause deletes the
\* entry of the req_id.
GreenDriver(r) ==
    LET cmd == yield_send_queues[r] IN
    /\ svc = "green"
    /\ hpc[r] = "driving"
    /\ cmd \in YieldCommands
    /\ IF cmd # "YIELD_CLOSE" /\ GeneStep(r).raised = NoExc
       THEN /\ wire' = Append(wire,
                          BuildReply(r, "YIELD", YieldData(GeneStep(r).value)))
            /\ yield_send_queues' = [yield_send_queues EXCEPT ![r] = "empty"]
            /\ gene' = [gene EXCEPT ![r] = gene[r] + 1]
            /\ UNCHANGED hpc
       ELSE IF cmd # "YIELD_CLOSE" /\ SendFailRaises(GeneStep(r).raised)
       THEN /\ yield_send_queues' = DelEntry(yield_send_queues, r)
            /\ hpc' = [hpc EXCEPT ![r] = "died"]
            /\ UNCHANGED <<wire, gene>>
       ELSE /\ wire' = Append(wire,
                   IF cmd = "YIELD_CLOSE"
                   THEN CloseReply(r)
                   ELSE BuildReply(r, "FAIL", FailData(GeneStep(r).raised)))
            /\ yield_send_queues' = DelEntry(yield_send_queues, r)
            /\ hpc' = [hpc EXCEPT ![r] = "done"]
            /\ UNCHANGED gene
    /\ UNCHANGED <<cvars, svc, req, res_queue, res_pipe, idents, msg_id,
                   ncmd, stray, thrown, avars>>

\* ThreadingRPCService.start, res_thread: res_queue.get and
\* res_push.send_multipart
ResThread ==
    /\ svc = "threading"
    /\ res_queue # <<>>
    /\ res_pipe' = Append(res_pipe, Head(res_queue))
    /\ res_queue' = Tail(res_queue)
    /\ UNCHANGED <<cvars, svc, req, hpc, wire, idents, msg_id,
                   yield_send_queues, ncmd, stray, gene, thrown, avars>>

\* ThreadingRPCService.start, io_thread: res_pull.recv_multipart and
\* task_sock.send_multipart
IoThreadSend ==
    /\ svc = "threading"
    /\ res_pipe # <<>>
    /\ wire' = Append(wire, Head(res_pipe))
    /\ res_pipe' = Tail(res_pipe)
    /\ UNCHANGED <<cvars, svc, req, hpc, res_queue, idents, msg_id,
                   yield_send_queues, ncmd, stray, gene, thrown, avars>>

\* TornadoRPCService._handle_request up to the call of the procedure:
\* _parse_request, which ends the handler when it returns None and when it
\* raises
TornadoHandleStart(r) ==
    /\ svc = "tornado"
    /\ hpc[r] = "spawned"
    /\ hpc' = [hpc EXCEPT ![r] = IF ParseFails(req[r]) THEN "done"
                                 ELSE IF ParseCrashes(req[r]) THEN "died"
                                 ELSE "running"]
    /\ UNCHANGED <<cvars, svc, req, wire, res_queue, res_pipe, idents,
                   msg_id, yield_send_queues, ncmd, stray, gene, thrown,
                   avars>>

\* the exception met in the try block of TornadoRPCService._handle_request
TornadoRaised(rq) ==
    IF ParseError(rq) # NoExc THEN ParseError(rq) ELSE ProcRaises(rq.name)

\* TornadoRPCService._handle_request from the call of the procedure on (the
\* result may be a Future that completes later): _send_fail on an
\* exception, else _send_ok; the ignore frame of the request is not looked at
TornadoHandleFinish(r) ==
    LET ex == TornadoRaised(req[r]) IN
    /\ svc = "tornado"
    /\ hpc[r] = "running"
    /\ IF ex # NoExc
       THEN IF SendFailRaises(ex)
            THEN /\ hpc' = [hpc EXCEPT ![r] = "died"]
                 /\ UNCHANGED wire
            ELSE /\ wire' = Append(wire, BuildReply(r, "FAIL", FailData(ex)))
                 /\ hpc' = [hpc EXCEPT ![r] = "done"]
       ELSE /\ wire' = Append(wire, BuildReply(r, "OK", OkData(req[r].name)))
            /\ hpc' = [hpc EXCEPT ![r] = "done"]
    /\ UNCHANGED <<cvars, svc, req, res_queue, res_pipe, idents, msg_id,
                   yield_send_queues, ncmd, stray, gene, thrown, avars>>

\* zpyrpc RPCServiceBase._handle_request in a greenlet of GeventRPCService,
\* up to the call of the method: self.idents and self.msg_id are set from
\* the request; a decode error ends the greenlet; an unknown method is
\* answered at once with FAILURE and the attributes are reset to None; on
\* a frame list that is no request msg_list.index(b'|') or the indexing of
\* the frames after it raises and ends the greenlet
ZHandleStart(r) ==
    LET rq == req[r] IN
    /\ svc = "zpyrpc"
    /\ hpc[r] = "spawned"
    /\ IF ParseFails(rq)
       THEN /\ hpc' = [hpc EXCEPT ![r] = "died"]
            /\ UNCHANGED <<idents, msg_id, wire>>
       ELSE IF ~rq.decodable
       THEN /\ idents' = rq.route
            /\ msg_id' = rq.id
            /\ hpc' = [hpc EXCEPT ![r] = "died"]
            /\ UNCHANGED wire
       ELSE IF rq.name \notin Procedures
       THEN /\ wire' = Append(wire,
                   [route |-> rq.route, id |-> rq.id, tag |-> FailTag,
                    data |-> FailData(Exc("NotImplementedError",
                               <<"Unknown RPC method ">> \o Repr(rq.name),
                               TRUE)),
                    by |-> r, cmd |-> FALSE])
            /\ idents' = "None"
            /\ msg_id' = "None"
            /\ hpc' = [hpc EXCEPT ![r] = "done"]
       ELSE /\ idents' = rq.route
            /\ msg_id' = rq.id
            /\ hpc' = [hpc EXCEPT ![r] = "running"]
            /\ UNCHANGED wire
    /\ UNCHANGED <<cvars, svc, req, res_queue, res_pipe, yield_send_queues,
                   ncmd, stray, gene, thrown, avars>>

\* zpyrpc RPCServiceBase._handle_request from the return of the method on:
\* _send_error or the SUCCESS reply, built by _build_reply from self.idents
\* and self.msg_id as they are now, then both are reset to None; an
\* exception of _build_reply or _send_error ends the greenlet before
ZHandleFinish(r) ==
    LET ex == ProcRaises(req[r].name) IN
    /\ svc = "zpyrpc"
    /\ hpc[r] = "running"
    /\ IF ZBuildRaises \/ (ex # NoExc /\ SendFailRaises(ex))
       THEN /\ hpc' = [hpc EXCEPT ![r] = "died"]
            /\ UNCHANGED <<wire, idents, msg_id>>
       ELSE /\ wire' = Append(wire,
                   IF ex # NoExc
                   THEN ZBuildReply(r, FailTag, FailData(ex))
                   ELSE ZBuildReply(r, OkTag, OkData(req[r].name)))
            /\ idents' = "None"
            /\ msg_id' = "None"
            /\ hpc' = [hpc EXCEPT ![r] = "done"]
    /\ UNCHANGED <<cvars, svc, req, res_queue, res_pipe, yield_send_queues,
                   ncmd, stray, gene, thrown, avars>>

\* ------------------------------------------------ the service, assembled

NextService ==
    \/ \E r \in Reqs, route \in Routes, name \in ProcNames,
          ig \in BOOLEAN, dec \in BOOLEAN : SvcRecv(r, route, name, ig, dec)
    \/ \E r \in Reqs : AckHandleStart(r)
    \/ \E r \in Reqs : AckHandleFinish(r)
    \/ \E r \in Reqs, cmd \in YieldCommands : GreenYieldRequest(r, cmd)
    \/ \E r \in Reqs : GreenDriver(r)
    \/ ResThread
    \/ IoThreadSend
    \/ \E r \in Reqs : TornadoHandleStart(r)
    \/ \E r \in Reqs : TornadoHandleFinish(r)
    \/ \E r \in Reqs : ZHandleStart(r)
    \/ \E r \in Reqs : ZHandleFinish(r)

InitService == SInit /\ NoClient /\ NoApi

SpecService == InitService /\ [][NextService]_vars

\* ------------------------------------------------ the green service and
\* its generators: one client (route "A") whose frames decode, and which
\* may send a YIELD_* command with any req_id at any time

NextGenerator ==
    \/ \E r \in Reqs, name \in ProcNames, ig \in BOOLEAN :
          SvcRecv(r, "A", name, ig, TRUE)
    \/ \E r \in Reqs : AckHandleStart(r)
    \/ \E r \in Reqs : AckHandleFinish(r)
    \/ \E r \in Reqs, cmd \in YieldCommands : GreenYieldRequest(r, cmd)
    \/ \E r \in Reqs, cmd \in YieldCommands, ig \in BOOLEAN :
          GreenYieldUnknown(r, cmd, ig)
    \/ \E r \in Reqs : GreenDriver(r)

\* ------------------------------------------------ the services when
\* frame lists that are no requests arrive between the requests of one
\* client (route "A") whose arguments decode

NextIntake ==
    \/ \E r \in Reqs, name \in ProcNames, ig \in BOOLEAN :
          SvcRecv(r, "A", name, ig, TRUE)
    \/ \E r \in Reqs : SvcRecvInvalid(r)
    \/ \E r \in Reqs : AckHandleStart(r)
    \/ \E r \in Reqs : AckHandleFinish(r)
    \/ \E r \in Reqs, cmd \in YieldCommands : GreenYieldRequest(r, cmd)
    \/ \E r \in Reqs : GreenDriver(r)
    \/ ResThread
    \/ IoThreadSend
    \/ \E r \in Reqs : TornadoHandleStart(r)
    \/ \E r \in Reqs : TornadoHandleFinish(r)
    \/ \E r \in Reqs : ZHandleStart(r)
    \/ \E r \in Reqs : ZHandleFinish(r)

SpecIntake == InitService /\ [][NextIntake]_vars

\* ------------------------------------------------ the threading service
\* with its result thread and its I/O thread scheduled whenever they can run

NextThreading ==
    \/ \E r \in Reqs, route \in Routes, name \in ProcNames,
          ig \in BOOLEAN, dec \in BOOLEAN : SvcRecv(r, route, name, ig, dec)
    \/ \E r \in Reqs : AckHandleStart(r)
    \/ \E r \in Reqs : AckHandleFinish(r)
    \/ ResThread
    \/ IoThreadSend

InitThreading == SInit /\ svc = "threading" /\ NoClient /\ NoApi

SpecThreading ==
    /\ InitThreading
    /\ [][NextThreading]_vars
    /\ WF_vars(ResThread)
    /\ WF_vars(IoThreadSend)

InitGenerator == SInit /\ svc = "green" /\ NoClient /\ NoApi

\* ------------------------------------------------ the green service and
\* the drivers of its generators: requests without ignore for the generator
\* procedures, and commands for the live generators

DriverProcs == {"gen", "genx", "genu"}

NextDriver ==
    \/ \E r \in Reqs, name \in DriverProcs : SvcRecv(r, "A", name, FALSE, TRUE)
    \/ \E r \in Reqs : AckHandleStart(r)
    \/ \E r \in Reqs : AckHandleFinish(r)
    \/ \E r \in Reqs, cmd \in {"YIELD_SEND", "YIELD_CLOSE"} :
          GreenYieldRequest(r, cmd)
    \/ \E r \in Reqs, ename \in ThrowNames : GreenYieldThrow(r, ename)
    \/ \E r \in Reqs : GreenDriver(r)

SpecDriver == InitGenerator /\ [][NextDriver]_vars

SpecGenerator == InitGenerator /\ [][NextGenerator]_vars

\* ------------------------------------------------ the green client and the
\* green service together: the calls of the client (without ignore and
\* without timeout) are the requests of the service, the commands of the
\* client's iterators go to the generators of the service, and the reader
\* of the client receives what the service puts on its socket (in this run
\* the reader never finds a yield queue full: the service answers a command
\* only after the client has sent it)

\* the procedures that are called: they return a value or a generator
EndToEndProcs == {"echo", "gen", "genx"}

NextEndToEnd ==
    \/ Connect
    \/ \E c \in Calls : GreenCall(c, FALSE, "none")
    \/ ReaderWake
    \/ \E c \in Calls, tag \in StreamTags : GreenReader(c, tag)
    \/ \E c \in Calls : GreenCallReturn(c)
    \/ \E c \in Calls, cmd \in YieldCommands : GreenIterOp(c, cmd)
    \/ \E c \in Calls : GreenIterTake(c)
    \/ \E c \in Calls : GreenIterAfterClose(c)
    \/ \E r \in Reqs, name \in EndToEndProcs :
          SvcRecv(r, "A", name, FALSE, TRUE)
    \/ \E r \in Reqs : AckHandleStart(r)
    \/ \E r \in Reqs : AckHandleFinish(r)
    \/ \E r \in Reqs, cmd \in YieldCommands : GreenYieldRequest(r, cmd)
    \/ \E r \in Reqs : GreenDriver(r)

InitEndToEnd ==
    CInit /\ backend = "green" /\ debug /\ SInit /\ svc = "green" /\ NoApi

SpecEndToEnd == InitEndToEnd /\ [][NextEndToEnd]_vars

\* the same run with calls of the generator "gen" only, the first call being made with a
\* timeout: its timer may fire at any moment after the call was made (in
\* this run, too, the reader never finds a yield queue full: once the timer
\* has filled it, the entry of the call is gone and its replies are dropped)
StreamProcs == {"gen"}

TimeoutOf(c) == IF c = 1 THEN "pos" ELSE "none"

NextStreamTimed ==
    \/ Connect
    \/ \E c \in Calls : GreenCall(c, FALSE, TimeoutOf(c))
    \/ \E c \in Calls : GreenTimerFire(c)
    \/ \E c \in Calls : GreenTimerPut(c)
    \/ ReaderWake
    \/ \E c \in Calls, tag \in StreamTags : GreenReader(c, tag)
    \/ \E c \in Calls : GreenCallReturn(c)
    \/ \E c \in Calls, cmd \in YieldCommands : GreenIterOp(c, cmd)
    \/ \E c \in Calls : GreenIterTake(c)
    \/ \E c \in Calls : GreenIterAfterClose(c)
    \/ \E r \in Reqs, name \in StreamProcs :
          SvcRecv(r, "A", name, FALSE, TRUE)
    \/ \E r \in Reqs : AckHandleStart(r)
    \/ \E r \in Reqs : AckHandleFinish(r)
    \/ \E r \in Reqs, cmd \in YieldCommands : GreenYieldRequest(r, cmd)
    \/ \E r \in Reqs : GreenDriver(r)

SpecStreamTimed == InitEndToEnd /\ [][NextStreamTimed]_vars


(***************************************************************************)
(* Properties of the service.                                              *)
(***************************************************************************)

\* the handler of request r has ended
Finished(r) == hpc[r] \in {"done", "died"}

\* every reply handed to the send path, oldest first: those on the socket,
\* then those in the threading service's pipe and result queue
Out == wire \o res_pipe \o res_queue

\* the replies built by the handler of request r (not those built by the
\* handlers of YIELD_* commands with its req_id)
RepliesBy(r) == {i \in 1..Len(Out) : Out[i].by = r /\ ~Out[i].cmd}

\* request r called a registered procedure that raised
ProcRaised(r) ==
    /\ Finished(r)
    /\ req[r].name \in Procedures
    /\ req[r].decodable
    /\ ProcRaises(req[r].name) # NoExc

\* C7: when a registered procedure raises, the green and the threading
\* service answer with a FAIL carrying the class name and the message of the
\* exception under the req_id of the request, or with nothing beyond the ACK
\* if ignore is set, and no handler is ended by an exception.
C7_RaiseGivesFail ==
    \A r \in Reqs :
        (svc \in AckBackends /\ ProcRaised(r)) =>
            /\ hpc[r] = "done"
            /\ IF req[r].ignore
               THEN \A i \in RepliesBy(r) : Out[i].tag = "ACK"
               ELSE \E i \in RepliesBy(r) :
                      /\ Out[i].tag = "FAIL"
                      /\ Out[i].id = req[r].id
                      /\ Out[i].data.ename = ProcRaises(req[r].name).ename
                      /\ Out[i].data.evalue = ProcRaises(req[r].name).msg

\* C8: a request naming a procedure that is not in the procedure table is
\* answered with a FAIL whose ename is NotImplementedError and whose evalue
\* is "Unregistered procedure '<name>'", and with no FAIL if the request
\* set ignore (in the netcall services: green, threading, Tornado).
C8_UnregisteredGivesFail ==
    \A r \in Reqs :
        (svc \in {"green", "threading", "tornado"} /\ Finished(r)
           /\ req[r].name \notin Procedures) =>
            IF req[r].ignore
            THEN \A i \in RepliesBy(r) : Out[i].tag # "FAIL"
            ELSE \E i \in RepliesBy(r) :
                   /\ Out[i].tag = "FAIL"
                   /\ Out[i].data.ename = "NotImplementedError"
                   /\ Out[i].data.evalue =
                          <<"Unregistered procedure ", "'", req[r].name, "'">>

\* C9: every reply of a service carries the route prefix and the req_id of
\* the request that its handler answers, whatever handlers run concurrently
\* and suspend in their procedure.
C9_ReplyCarriesRouteAndId ==
    \A i \in 1..Len(Out) :
        /\ Out[i].route = req[Out[i].by].route
        /\ Out[i].id = req[Out[i].by].id

\* C10: in the green and in the threading service, every OK, FAIL or YIELD
\* on the wire is preceded on the wire by an ACK with the same req_id.
C10_AckFirst ==
    svc \in AckBackends =>
        \A i \in 1..Len(wire) :
            wire[i].tag # "ACK" =>
                \E j \in 1..(i-1) :
                    wire[j].tag = "ACK" /\ wire[j].id = wire[i].id

\* the threading service answered two requests that were handled at the
\* same time: both ACKs went out before the OK of one and the FAIL of the
\* other
C10_Witness ==
    /\ svc = "threading"
    /\ Len(wire) = 4
    /\ wire[1].tag = "ACK"
    /\ wire[2].tag = "ACK"
    /\ wire[1].id # wire[2].id
    /\ wire[3].tag = "OK"
    /\ wire[4].tag = "FAIL"
    /\ wire[4].id = wire[1].id


(***************************************************************************)
(* Properties of the green service's generators.                           *)
(***************************************************************************)

\* the replies on the wire that end the request with req_id r: OK or FAIL
Terminals(r) ==
    {i \in 1..Len(Out) : Out[i].id = r /\ Out[i].tag \in {"OK", "FAIL"}}

\* C11: every well-formed request that does not set ignore gets exactly one
\* OK or FAIL under its req_id over its whole life, whatever YIELD_* commands
\* are sent with that req_id: never two, and never none once its handler has
\* ended.
C11_OneTerminalReply ==
    \A r \in Reqs :
        (hpc[r] # "none" /\ req[r].decodable /\ ~req[r].ignore) =>
            /\ Cardinality(Terminals(r)) <= 1
            /\ Finished(r) => Cardinality(Terminals(r)) = 1

\* C12: a request that was acknowledged gets a terminal reply (OK or FAIL)
\* under the same req_id: once its handler has ended, the terminal reply has
\* been sent (a handler that has ended sends nothing more).  The request did
\* not set ignore.
C12_AckThenTerminal ==
    \A r \in Reqs :
        (svc \in AckBackends /\ Finished(r) /\ ~req[r].ignore
           /\ \E i \in RepliesBy(r) : Out[i].tag = "ACK") =>
            \E i \in RepliesBy(r) : Out[i].tag \in {"OK", "FAIL"}

\* the generator of request r has returned: the next gene.send raises
\* StopIteration
Exhausted(r) == GeneSend(req[r].name, gene[r]).raised.ename = "StopIteration"

\* the driver of request r takes a command from its queue in this step
DriverTurn(r) ==
    /\ hpc[r] = "driving"
    /\ yield_send_queues[r] \in YieldCommands
    /\ yield_send_queues'[r] # yield_send_queues[r]

C14_Step ==
    \A r \in Reqs :
        DriverTurn(r) =>
            /\ (yield_send_queues[r] = "YIELD_SEND" /\ Exhausted(r)) =>
                   /\ wire' = Append(wire, BuildReply(r, "OK", NoneData))
                   /\ hpc'[r] = "done"
            /\ (Len(wire') > Len(wire) /\ wire'[Len(wire')].tag = "FAIL") =>
                   /\ yield_send_queues[r] # "YIELD_CLOSE"
                   /\ GeneStep(r).raised \notin
                          {NoExc, Exc("StopIteration", <<>>, TRUE)}

\* C14: when a YIELD_SEND advances a generator that has returned, the driver
\* sends OK with an empty payload and leaves its loop; a turn of the driver
\* sends a FAIL only when the generator raised another exception.
C14_ExhaustionGivesOk == [][C14_Step]_vars

StrayStep == Len(stray') = Len(stray) + 1

\* the two replies to such a request: the ACK and the FAIL of ValueError
StrayFail(s) ==
    /\ Len(wire') = Len(wire) + 2
    /\ SubSeq(wire', 1, Len(wire)) = wire
    /\ wire'[Len(wire) + 1].tag = "ACK"
    /\ wire'[Len(wire) + 1].id = s.id
    /\ wire'[Len(wire')].tag = "FAIL"
    /\ wire'[Len(wire')].id = s.id
    /\ wire'[Len(wire')].data.ename = "ValueError"
    /\ wire'[Len(wire')].data.evalue =
           <<"req_id does not refer to a known generator">>

\* the table, the generators and their drivers are as they were
GeneratorsUnchanged ==
    /\ yield_send_queues' = yield_send_queues
    /\ gene' = gene
    /\ hpc' = hpc

C17_Step ==
    StrayStep =>
        LET s == stray'[Len(stray')] IN
        /\ GeneratorsUnchanged
        /\ IF s.ignore
           THEN wire' = Append(wire, CmdReply(s.id, "ACK", AckData))
           ELSE StrayFail(s)

C17_StepAsWritten ==
    StrayStep =>
        /\ GeneratorsUnchanged
        /\ StrayFail(stray'[Len(stray')])

GenValues == [i \in 1..GenLen |-> GenValue(i)]

\* call c is a call of gen whose request the service has received
CallsGen(c) == hpc[c] # "none" /\ req[c].name = "gen"

\* C13: the iterator of a call of gen, which yields GenValues and returns,
\* delivers these values in this order, the None among them included, and
\* nothing else; it does not raise; when it signals end-of-iteration without
\* having been closed, all the values have been delivered and
\* yield_send_queues has no entry for the call.  The consumer only calls
\* next().
C13_StreamDeliversAll ==
    \A c \in Calls :
        (CallsGen(c)
           /\ \A i \in 1..Len(cmds) :
                  cmds[i].id = c => cmds[i].cmd = "YIELD_SEND") =>
            /\ Len(got[c]) <= GenLen
            /\ got[c] = SubSeq(GenValues, 1, Len(got[c]))
            /\ iter[c] # "raised"
            /\ iter[c] = "ended" =>
                   /\ got[c] = GenValues
                   /\ yield_send_queues[c] = "absent"

\* the consumer has iterated over the stream of a call of gen to its end
C13_Witness ==
    \E c \in Calls :
        /\ CallsGen(c)
        /\ iter[c] = "ended"
        /\ got[c] = GenValues
        /\ Len(cmds) = GenLen + 1
        /\ \A i \in 1..Len(cmds) : cmds[i] = [id |-> c, cmd |-> "YIELD_SEND"]

\* close() was called on the iterator of call c
CloseSent(c) == \E i \in 1..Len(cmds) : cmds[i] = [id |-> c, cmd |-> "YIELD_CLOSE"]

\* the service has received the YIELD_CLOSE of call c and its driver has
\* run: it sent a terminal reply and the entry of the call is gone
ServiceClosed(c) ==
    /\ hpc[c] = "done"
    /\ yield_send_queues[c] = "absent"
    /\ \E i \in RepliesBy(c) : Out[i].tag \in {"OK", "FAIL"}

C16_Step ==
    \A c \in Calls :
        /\ (CloseSent(c) /\ iter[c] \in {"closed", "ended"}) => ServiceClosed(c)
        /\ (iter[c] = "closed" /\ iter'[c] # "closed") =>
               /\ iter'[c] = "ended"
               /\ got' = got
               /\ cmds' = cmds

\* C16: once close() on the iterator of a live generator has returned, the
\* driver of the generator has left its loop, a terminal reply was sent and
\* yield_send_queues has no entry for the call; iterating the closed
\* iterator signals end-of-iteration, delivers nothing and sends nothing.
C16_CloseReleases == [][C16_Step]_vars

\* the consumer took a value from the stream of a generator, closed the
\* iterator and iterated again
C16_Witness ==
    \E c \in Calls :
        /\ CloseSent(c)
        /\ Len(got[c]) = 1
        /\ iter[c] = "ended"
        /\ ProcReturnsGenerator(req[c].name)
        /\ \E i \in RepliesBy(c) : Out[i].tag = "OK"

(***************************************************************************)
(* Properties of the services on frame lists that are no requests.         *)
(***************************************************************************)

\* the handler of the r-th frame list, which is no request, moves
InvalidStep28(r) == ~req'[r].parses /\ hpc'[r] # hpc[r]

C28_Step ==
    \A r \in Reqs :
        InvalidStep28(r) =>
            /\ wire' = wire /\ res_queue' = res_queue /\ res_pipe' = res_pipe
            /\ yield_send_queues' = yield_send_queues
            /\ gene' = gene
            /\ hpc'[r] \in {"spawned", "done", "died"}

\* C28: when a frame list that fails to parse as a request arrives, the
\* service (green, threading, tornado) sends nothing for it, neither ACK nor
\* FAIL, calls no procedure, leaves the table of active generators as it
\* is, and the handler ends.
C28_InvalidRequestDropped == [][C28_Step]_vars

\* a frame list that is no request came first and its handler has ended;
\* the request that came after it has been answered with OK
C28_Witness ==
    /\ svc \in {"green", "threading", "tornado"}
    /\ ~req[1].parses /\ hpc[1] = "done"
    /\ req[2].parses /\ hpc[2] = "done"
    /\ \E i \in 1..Len(wire) : wire[i].by = 2 /\ wire[i].tag = "OK"
    /\ \A i \in 1..Len(wire) : wire[i].by # 1

\* ------------------------------------------------ the send side of the
\* threading service

\* the replies that the handler of request r has handed to _send_reply so
\* far: the ACK once _parse_request accepted the request, and what follows
\* the try block once the handler has ended
Produced(r) ==
    (IF hpc[r] \in {"running", "done", "died"} /\ ~ParseFails(req[r])
     THEN <<BuildReply(r, "ACK", AckData)>> ELSE <<>>)
    \o (IF hpc[r] \in {"done", "died"} /\ ~ParseFails(req[r])
        THEN AckFinishReplies(r) ELSE <<>>)

Occurrences(s, x) == Cardinality({i \in 1..Len(s) : s[i] = x})

\* every reply a worker produced is on the send path exactly once, and
\* nothing else is
EachReplyOnce ==
    /\ \A r \in Reqs : \A k \in 1..Len(Produced(r)) :
           Occurrences(Out, Produced(r)[k]) = 1
    /\ \A i \in 1..Len(Out) : \E r \in Reqs, k \in 1..2 :
           k <= Len(Produced(r)) /\ Out[i] = Produced(r)[k]

\* a step that puts something on the ROUTER socket is the I/O thread's, and
\* it moves one whole reply from the pipe
OnlyIoThreadSends ==
    wire' # wire =>
        /\ res_pipe # <<>>
        /\ wire' = Append(wire, Head(res_pipe))
        /\ res_pipe' = Tail(res_pipe)
        /\ UNCHANGED <<res_queue, hpc, req>>

\* the worker of request r is blocked in res_queue.put
BlockedOnPut(r) ==
    \/ hpc[r] = "spawned" /\ ~ParseFails(req[r])
          /\ SendBlocks(<<BuildReply(r, "ACK", AckData)>>)
    \/ hpc[r] = "running" /\ SendBlocks(AckFinishReplies(r))

\* C32: in the threading service every reply of a worker goes through the
\* bounded result queue and is put on the ROUTER socket by the I/O thread
\* only, each reply exactly once and as one whole message; and a worker
\* that is blocked on the full result queue is released in the end, the
\* result thread and the I/O thread being scheduled.
C32_RepliesSerialised ==
    /\ [](Len(res_queue) <= ServicePoolWorkers /\ EachReplyOnce)
    /\ [][OnlyIoThreadSends]_vars
    /\ \A r \in Reqs : BlockedOnPut(r) ~> ~BlockedOnPut(r)

\* the result queue is full, a worker is blocked in res_queue.put with its
\* reply while the other worker has ended, and the I/O thread has put a
\* reply on the socket
C32_Witness ==
    /\ svc = "threading"
    /\ Len(res_queue) = ServicePoolWorkers
    /\ \E r \in Reqs, q \in Reqs :
           /\ BlockedOnPut(r)
           /\ hpc[q] = "done"
    /\ wire # <<>>

\* ------------------------------------------------ the pending table of the
\* green client in stream mode

\* the step in which the reader takes the next reply of the service off the
\* socket, and that reply is for call c and of type tag
ReplyStep(c, tag) ==
    /\ rcvd' = rcvd + 1
    /\ wire[rcvd + 1].id = c
    /\ wire[rcvd + 1].tag = tag

\* the step in which the timer of call c runs
TimerStep(c) == c \in timers /\ c \notin timers'

\* call c has come to its end for the caller: it was not made, it returned a
\* value or raised, or the iterator it returned has terminated
Settled(c) ==
    \/ call[c].pc = "idle"
    \/ /\ call[c].pc = "done"
       /\ call[c].outcome = "ITER" => iter[c] \in {"ended", "raised", "closed"}

C36_Step ==
    \A c \in Calls :
        /\ (ReplyStep(c, "YIELD") /\ c \in results) => c \in results'
        /\ (res[c].mode = "yield" /\ c \in results /\ c \notin results') =>
               \/ ReplyStep(c, "OK")
               \/ ReplyStep(c, "FAIL")
               \/ TimerStep(c)
        /\ (ReplyStep(c, "OK") \/ ReplyStep(c, "FAIL") \/ TimerStep(c)) =>
               c \notin results'
        /\ (\A d \in Calls : Settled(d)') => results' = {}

\* C36: while a call is in stream mode its entry stays in the pending table
\* across every YIELD and is removed exactly when the terminal OK or FAIL of
\* its req_id is processed or its timer fires; once every call has
\* returned, raised or had its iterator terminated the table is empty.
C36_StreamEntryLifecycle == [][C36_Step]_vars

\* two calls returned iterators; the entry of the first was removed by its
\* timer and its iterator raised the timeout, the second was closed by the
\* consumer and its entry removed by the terminal OK; the table is empty
C36_Witness ==
    /\ \A c \in Calls : call[c].outcome = "ITER" /\ Settled(c)
    /\ fired[1] = "first"
    /\ res[1].roe = "TIMEOUT"
    /\ iter[1] = "raised"
    /\ iter[2] = "closed"
    /\ srv[2] = "OK"
    /\ results = {}

\* ------------------------------------------------ the handshake of a stream

\* the step in which call c returns its iterator to the caller
ReturnsIterator(c) ==
    call[c].pc = "waiting" /\ call'[c].pc = "done" /\ call'[c].outcome = "ITER"

\* the handshake YIELD of request r is on the socket
HandshakeSent(r) ==
    \E i \in 1..Len(wire) :
        wire[i].by = r /\ wire[i].tag = "YIELD" /\ wire[i].data = NoneData

C37_Step ==
    \A c \in Calls :
        /\ ReturnsIterator(c) =>
              /\ HandshakeSent(c)
              /\ gene[c] = 0
              /\ res'[c].yq = <<>>
              /\ got'[c] = <<>>
        /\ Len(got'[c]) <= gene'[c]
        /\ got'[c] = SubSeq(GenValues, 1, Len(got'[c]))

\* C37: the YIELD without payload that the service sends when a generator
\* starts is a handshake: the client takes it off the yield queue when the
\* call returns the iterator, before the generator has produced anything,
\* and never hands it to the consumer; the consumer has never been given
\* more values than the generator has produced, and the values it was given
\* are the generator's, from the first on.
C37_HandshakeConsumed == [][C37_Step]_vars

\* the consumer has been given one value, the first that the generator
\* produced, after the handshake and the call's return
C37_Witness ==
    \E c \in Calls :
        /\ call[c].outcome = "ITER"
        /\ HandshakeSent(c)
        /\ gene[c] = 1
        /\ got[c] = <<GenValue(1)>>
        /\ iter[c] = "open"

\* ------------------------------------------------ arguments that do not
\* decode

FailsBy(r) == {i \in RepliesBy(r) : Out[i].tag = "FAIL"}

\* C38: when the argument frames of a request do not decode, the netcall
\* services (green, threading, Tornado) do not call the procedure and answer
\* with one FAIL that carries the decode error, or with no FAIL if the
\* request set ignore; when the name is unregistered as well, the request
\* is still answered with a single FAIL, and no handler is ended by an
\* exception.
C38_DecodeFailureGivesFail ==
    \A r \in Reqs :
        (svc \in {"green", "threading", "tornado"} /\ Finished(r)
           /\ req[r].parses /\ ~req[r].decodable) =>
            /\ hpc[r] = "done"
            /\ \A i \in RepliesBy(r) : Out[i].tag \in {"ACK", "FAIL"}
            /\ IF req[r].ignore THEN FailsBy(r) = {}
               ELSE /\ Cardinality(FailsBy(r)) = 1
                    /\ req[r].name \in Procedures =>
                         \A i \in FailsBy(r) :
                             Out[i].data = FailData(DecodeError)

\* ------------------------------------------------ ignore and generators

\* request r set ignore and called a procedure that returns a generator
IgnoredGenerator(r) ==
    /\ hpc[r] # "none"
    /\ req[r].ignore
    /\ ProcReturnsGenerator(req[r].name)

\* C39: a request with ignore set whose procedure returns a generator starts
\* no driver in the green service: its handler sends nothing but the ACK,
\* neither the YIELD handshake nor a terminal reply, it never enters the
\* driver loop, the generator is never advanced, and its req_id is never a
\* key of yield_send_queues.
C39_IgnoredGeneratorNotDriven ==
    \A r \in Reqs :
        (svc = "green" /\ IgnoredGenerator(r)) =>
            /\ \A i \in RepliesBy(r) : Out[i].tag = "ACK"
            /\ hpc[r] # "driving"
            /\ gene[r] = 0
            /\ yield_send_queues[r] = "absent"

\* the handler of a request with ignore that called a generator procedure
\* has ended, having sent its ACK, while the generator of a request without
\* ignore is being driven
C39_Witness ==
    \E r \in Reqs, q \in Reqs :
        /\ svc = "green"
        /\ IgnoredGenerator(r)
        /\ hpc[r] = "done"
        /\ \E i \in RepliesBy(r) : Out[i].tag = "ACK"
        /\ hpc[q] = "driving"
        /\ ~req[q].ignore

\* ------------------------------------------------ the commands of a live
\* generator

\* the commands accepted for the generator of request r: the handler of each
\* has sent its ACK and put the command in the queue of r
CommandsAccepted(r) ==
    Cardinality({i \in 1..Len(wire) :
                    wire[i].by = r /\ wire[i].cmd /\ wire[i].tag = "ACK"})

\* the command in the queue of r that the driver has not taken yet
CommandsPending(r) == IF yield_send_queues[r] \in YieldCommands THEN 1 ELSE 0

\* the positions of the replies of the driver of r: what the handler of r
\* has sent after its ACK and the handshake
DriverReplies(r) ==
    {i \in 1..Len(wire) :
        /\ wire[i].by = r /\ ~wire[i].cmd /\ wire[i].tag # "ACK"
        /\ \E j \in 1..(i - 1) :
              wire[j].by = r /\ ~wire[j].cmd /\ wire[j].tag = "YIELD"}

\* the step in which the driver of r takes a command from its queue and
\* applies it
DriverStep(r) ==
    /\ hpc[r] = "driving"
    /\ yield_send_queues[r] \in YieldCommands
    /\ yield_send_queues'[r] # yield_send_queues[r]

\* the name in a YIELD_THROW is that of a class of the module exceptions
KnownClass(ename) == ename = "TypeError"

C40_Step ==
    \A r \in Reqs :
        /\ HandshakeSent(r)' =>
              Cardinality(DriverReplies(r)') =
                  CommandsAccepted(r)' - CommandsPending(r)'
        /\ \A i \in DriverReplies(r)' :
              wire'[i].tag = "YIELD" =>
                  wire'[i].data.evalue =
                      GenValue(Cardinality({j \in DriverReplies(r)' : j <= i}))
        /\ DriverStep(r) =>
              /\ Len(wire') = Len(wire) + 1
              /\ wire'[Len(wire')].by = r
              /\ wire'[Len(wire')].tag \in {"YIELD", "OK", "FAIL"}
              /\ yield_send_queues[r] = "YIELD_CLOSE" =>
                     wire'[Len(wire')].tag = "OK"
              /\ (yield_send_queues[r] = "YIELD_THROW"
                    /\ ~KnownClass(thrown[r])) =>
                     /\ wire'[Len(wire')].tag = "FAIL"
                     /\ wire'[Len(wire')].data.ename = "Exception"

\* C40: every command accepted for a live generator of the green service is
\* answered by exactly one reply of the driver, a YIELD or the terminal OK
\* or FAIL; the commands of one req_id are applied in the order in which
\* they were put in its queue, so that the values of the generator go out
\* in their order; and a YIELD_THROW that names no known exception class
\* injects Exception.
C40_OneReplyPerCommand == [][C40_Step]_vars

(***************************************************************************)
(* Part III.  The public API of a service: the procedure table, start and  *)
(* stop.                                                                   *)
(*                                                                         *)
(* A name is a string, modelled as the sequence of its dot-free pieces and *)
(* its dots: "a.b.value" is <<"a", ".", "b", ".", "value">>.               *)
(*                                                                         *)
(* TornadoRPCService gets its table from RPCServiceBase of                 *)
(* netcall/service.py.  GeventRPCService and ThreadingRPCService get it    *)
(* from RPCServiceBase of netcall/base.py: that table is modelled after    *)
(* the specification of the registry.                                      *)
(***************************************************************************)

\* how many calls of the public API are made on one service
MaxApiCalls == 3

\* the services with a procedure table of netcall
ApiBackends == {"green", "threading", "tornado"}

\* a name without a dot
Name(s) == <<s>>

\* the reserved names, as the specification lists them
ReservedNames ==
    {Name(s) : s \in {"register", "register_object", "proc", "task", "start",
                      "stop", "serve", "reset", "connect", "bind",
                      "bind_ports", "YIELD_SEND", "YIELD_THROW",
                      "YIELD_CLOSE"}}

\* RPCServiceBase._RESERVED of netcall/service.py
_RESERVED ==
    {Name(s) : s \in {"registser", "proc", "task", "start", "stop", "serve"}}

\* the public callable attributes that the classes of netcall/service.py
\* give a service object (those inherited from RPCBase come on top)
ServiceMethods ==
    {Name(s) : s \in {"register", "task", "proc", "start", "stop", "serve"}}

\* a bound method of the service object
SelfMethod(n) == [kind |-> "method", of |-> "self", name |-> n]

\* the arguments of register: no function, an object that is not callable,
\* and functions with their __name__
NoFunc == [kind |-> "none", of |-> "", name |-> <<>>]

NotCallable == [kind |-> "int", of |-> "", name |-> <<>>]

Function(n) == [kind |-> "function", of |-> "", name |-> n]

Funcs ==
    {NoFunc, NotCallable, Function(Name("fixture")), Function(Name("stop"))}

\* name=None
NoName == <<>>

NameArgs == {NoName, Name("work"), Name("bind"), Name("YIELD_SEND")}

callable(f) == f.kind \in {"function", "method"}

\* the objects handed to register_object: ToyObject of the tests, with a
\* method named like a framework verb and a public attribute that is no
\* method
Toys == {"toy1", "toy2"}

ToyAttrs == {"value", "restricted", "_private", "stop", "size", "_value"}

ToyCallable(a) == a \in {"value", "restricted", "_private", "stop"}

ToyMethod(t, a) == [kind |-> "method", of |-> t, name |-> Name(a)]

Namespaces == {<<>>, Name("a"), <<"a", ".", "b">>}

Restrictions == {{}, {"restricted"}}

\* RPCServiceBase.__init__ of netcall/service.py: every public callable
\* attribute of the service object that is not in _RESERVED is registered
InitProcedures ==
    [n \in {m \in ServiceMethods : m \notin _RESERVED} |-> SelfMethod(n)]

\* the table of netcall/base.py after construction
InitProceduresBase == <<>>

\* self.procedures[name] = func
SetItem(table, name, func) ==
    [k \in DOMAIN table \cup {name} |-> IF k = name THEN func ELSE table[k]]

\* the record of a call of the public API
ApiCall(op, args, raised, text) ==
    [op |-> op, args |-> args, raised |-> raised, text |-> text,
     before |-> procedures]

AInit ==
    /\ procedures = IF svc = "tornado" THEN InitProcedures
                    ELSE InitProceduresBase
    /\ listening = FALSE
    /\ api = ApiCall("__init__", <<>>, "none", <<>>)
    /\ napi = 0
    /\ msg_list = <<>>
    /\ parsed = <<>>
    /\ method = <<>>
    /\ chain = <<>>
    /\ given = <<>>
    /\ issued = <<>>

\* ------------------------------------------------------ register

\* a register that takes the function's own name whatever name is given
RegisteredNameOwn(func, name) == func.name

\* name = func.__name__ when no name is given
RegisteredName(func, name) == IF name = NoName THEN func.name ELSE name

\* what register raises: the exception and its message
\* (netcall/service.py; the table of netcall/base.py refuses a reserved
\* name as well)
RegisterRaises(func, name) ==
    IF func = NoFunc
    THEN IF name = NoName
         THEN Exc("ValueError", <<"at least one argument is required">>, TRUE)
         ELSE NoExc
    ELSE IF ~callable(func)
    THEN Exc("ValueError", <<"func argument should be callable">>, TRUE)
    ELSE IF svc # "tornado" /\ RegisteredName(func, name) \in ReservedNames
    THEN Exc("ValueError",
             RegisteredName(func, name) \o <<" is a reserved function name">>,
             TRUE)
    ELSE NoExc

\* RPCServiceBase.register(func, name); with a name and no function it
\* returns a partial of itself and registers nothing
register(func, name) ==
    LET ex == RegisterRaises(func, name) IN
    /\ svc \in ApiBackends
    /\ napi < MaxApiCalls
    /\ napi' = napi + 1
    /\ api' = ApiCall("register", <<func, name>>, ex.ename, ex.msg)
    /\ procedures' = IF ex # NoExc \/ func = NoFunc THEN procedures
                     ELSE SetItem(procedures, RegisteredName(func, name), func)
    /\ UNCHANGED <<cvars, svars, listening, msg_list, parsed, method,
                   chain, given, issued>>

\* ------------------------------------------------------ register_object

\* a name that starts with "_"
Private(a) == a \in {"_private", "_value"}

\* a register_object that takes every method of the object
AcceptedAny(restricted) == {a \in ToyAttrs : ToyCallable(a)}

\* the attributes of an object that register_object takes
Accepted(restricted) ==
    {a \in ToyAttrs : /\ ToyCallable(a)
                      /\ ~Private(a)
                      /\ a \notin restricted
                      /\ Name(a) \notin ReservedNames}

\* the key of method a under a namespace when the namespace is dropped
KeyNoNamespace(namespace, a) == Name(a)

\* the key of method a under a namespace: "<namespace>.<a>", or the name
\* alone when the namespace is empty
Key(namespace, a) ==
    IF namespace = <<>> THEN Name(a) ELSE namespace \o <<".">> \o Name(a)

\* register_object(obj, namespace, restricted) of netcall/base.py (the
\* service class of netcall/service.py has no such method)
register_object(obj, namespace, restricted) ==
    LET keys == {Key(namespace, a) : a \in Accepted(restricted)} IN
    /\ svc \in AckBackends
    /\ napi < MaxApiCalls
    /\ napi' = napi + 1
    /\ api' = ApiCall("register_object", <<obj, namespace, restricted>>,
                      "none", <<>>)
    /\ procedures' =
           [k \in DOMAIN procedures \cup keys |->
               IF k \in keys
               THEN ToyMethod(obj, CHOOSE a \in Accepted(restricted) :
                                       Key(namespace, a) = k)
               ELSE procedures[k]]
    /\ UNCHANGED <<cvars, svars, listening, msg_list, parsed, method,
                   chain, given, issued>>

\* ------------------------------------------------------ start and stop

\* what start raises: "assert ..., 'already started'" of the three classes
StartRaises ==
    IF listening THEN Exc("AssertionError", <<"already started">>, TRUE)
    ELSE NoExc

\* start() of a service that is bound
start ==
    /\ svc \in ApiBackends
    /\ napi < MaxApiCalls
    /\ napi' = napi + 1
    /\ api' = ApiCall("start", <<>>, StartRaises.ename, StartRaises.msg)
    /\ listening' = TRUE
    /\ UNCHANGED <<cvars, svars, procedures, msg_list, parsed, method,
                   chain, given, issued>>

\* what stop raises
StopRaises ==
    IF svc = "threading"
    THEN Exc("NotImplementedError", <<"TODO: signal threads to quit">>, TRUE)
    ELSE NoExc

\* stop(): TornadoRPCService clears _is_started; GeventRPCService returns
\* at once when it has no greenlet, else it resets the socket, joins the
\* greenlet and clears it; ThreadingRPCService raises
stop ==
    /\ svc \in ApiBackends
    /\ napi < MaxApiCalls
    /\ napi' = napi + 1
    /\ api' = ApiCall("stop", <<>>, StopRaises.ename, StopRaises.msg)
    /\ listening' = IF StopRaises # NoExc THEN listening ELSE FALSE
    /\ UNCHANGED <<cvars, svars, procedures, msg_list, parsed, method,
                   chain, given, issued>>

\* ------------------------------------------------------ lookup

\* _parse_request: proc = self.procedures.get(name, None) and the error of
\* a name that is not in the table
Lookup(name) ==
    IF name \in DOMAIN procedures THEN NoExc ELSE Unregistered(name)

\* ------------------------------------------------ the API, assembled

NextApi ==
    \/ \E func \in Funcs, name \in NameArgs : register(func, name)
    \/ \E obj \in Toys, namespace \in Namespaces, restricted \in Restrictions :
          register_object(obj, namespace, restricted)
    \/ start
    \/ stop

\* the service object after construction; no client is used
ApiIdle ==
    /\ req = <<>>
    /\ hpc = <<>>
    /\ wire = <<>>
    /\ res_queue = <<>>
    /\ res_pipe = <<>>
    /\ idents = "None"
    /\ msg_id = "None"
    /\ yield_send_queues = <<>>
    /\ ncmd = 0
    /\ stray = <<>>
    /\ gene = <<>>
    /\ thrown = <<>>

InitApi == svc \in ApiBackends /\ ApiIdle /\ NoClient /\ AInit

SpecApi == InitApi /\ [][NextApi]_vars

\* ------------------------------------------------------ _parse_request

\* how many frames a frame list has at most
MaxFrames == 6

\* the frames: the separator, a req_id or route frame, the name of a
\* registered procedure, a frame that deserializes, and one that does not
Frames == {"|", "id", "echo", "args", "junk"}

\* the frame lists of up to n frames
RECURSIVE FrameListsUpTo(_)
FrameListsUpTo(n) ==
    IF n = 0 THEN {<<>>}
    ELSE LET shorter == FrameListsUpTo(n - 1) IN
         shorter \cup {Append(l, f) : l \in {s \in shorter : Len(s) = n - 1},
                                      f \in Frames}

\* "len(msg_list) < 5"
MinFrames == 5

\* msg_list.index(b'|'), counted from 1
Boundary(l) == CHOOSE i \in 1..Len(l) :
                   l[i] = "|" /\ \A j \in 1..(i - 1) : l[j] # "|"

\* deserialize_args_kwargs(data) of the serializer returns: the frames of
\* the arguments and of the keyword arguments are there and decode
Deserializes(data) ==
    Len(data) >= 2 /\ data[1] = "args" /\ data[2] = "args"

\* what _parse_request gives: None, a request, or an exception
Parsed(kind, ename, route, id, name, error) ==
    [kind |-> kind, ename |-> ename, route |-> route, msg_id |-> id,
     name |-> name, error |-> error]

Unparsed == Parsed("unparsed", "", <<>>, "", "", NoExc)

\* RPCServiceBase._parse_request of netcall/service.py
ParseRequest(l) ==
    IF Len(l) < MinFrames \/ ~\E i \in 1..Len(l) : l[i] = "|"
    THEN Parsed("None", "", <<>>, "", "", NoExc)
    ELSE LET boundary == Boundary(l) IN
         IF boundary + 2 > Len(l)
         THEN \* name = msg_list[boundary+2]
              Parsed("raise", "IndexError", <<>>, "", "", NoExc)
         ELSE LET name == l[boundary + 2]
                  data == SubSeq(l, boundary + 3, Len(l)) IN
              IF ~Deserializes(data)
              THEN \* args and kwargs are not bound when the dict is built
                   Parsed("raise", "UnboundLocalError", <<>>, "", "", NoExc)
              ELSE Parsed("request", "", SubSeq(l, 1, boundary - 1),
                          l[boundary + 1], name, Lookup(Name(name)))

\* the handler of a frame list calls _parse_request
ParseMsgList ==
    /\ parsed = Unparsed
    /\ parsed' = ParseRequest(msg_list)
    /\ UNCHANGED <<cvars, svars, procedures, listening, api, napi,
                   msg_list, method, chain, given, issued>>

NextParse == ParseMsgList

\* a TornadoRPCService with echo registered has received a frame list
InitParse ==
    /\ svc = "tornado"
    /\ ApiIdle /\ NoClient
    /\ procedures = SetItem(InitProcedures, Name("echo"),
                            Function(Name("echo")))
    /\ listening = TRUE
    /\ api = ApiCall("start", <<>>, "none", <<>>)
    /\ napi = 0
    /\ msg_list \in FrameListsUpTo(MaxFrames)
    /\ parsed = Unparsed
    /\ method = <<>>
    /\ chain = <<>>
    /\ given = <<>>
    /\ issued = <<>>

SpecParse == InitParse /\ [][NextParse]_vars

\* ------------------------------------------------------ remote handles

\* how many attribute names a handle is built of at most
MaxChain == 3

\* how many invocations are made
MaxInvocations == 2

AttrNames == {"a", "value"}

\* positional and keyword arguments of an invocation
ArgLists == {<<>>, <<1, 2>>, <<2, 1>>}

KwargSets == {{}, {<<"x", 7>>}}

\* a call that drops the keyword arguments
IssuedCallArgsOnly(m, args, kwargs) ==
    [proc_name |-> m, args |-> args, kwargs |-> {}]

\* RemoteMethod.__call__: self.client.call(self.method, args, kwargs)
IssuedCall(m, args, kwargs) ==
    [proc_name |-> m, args |-> args, kwargs |-> kwargs]

\* client.<name>: the client makes RemoteMethod(client, name)
ClientGetAttr(name) ==
    /\ method' = Name(name)
    /\ chain' = <<name>>
    /\ UNCHANGED <<cvars, svars, procedures, listening, api, napi,
                   msg_list, parsed, given, issued>>

\* RemoteMethod.__getattr__:
\*   RemoteMethod(self.client, '.'.join([self.method, name]))
HandleGetAttr(name) ==
    /\ chain # <<>>
    /\ Len(chain) < MaxChain
    /\ method' = method \o <<".">> \o Name(name)
    /\ chain' = Append(chain, name)
    /\ UNCHANGED <<cvars, svars, procedures, listening, api, napi,
                   msg_list, parsed, given, issued>>

\* RemoteMethod.__call__(*args, **kwargs)
HandleCall(args, kwargs) ==
    /\ chain # <<>>
    /\ Len(issued) < MaxInvocations
    /\ given' = [args |-> args, kwargs |-> kwargs]
    /\ issued' = Append(issued, IssuedCall(method, args, kwargs))
    /\ UNCHANGED <<cvars, svars, procedures, listening, api, napi,
                   msg_list, parsed, method, chain>>

NextHandle ==
    \/ \E name \in AttrNames : ClientGetAttr(name)
    \/ \E name \in AttrNames : HandleGetAttr(name)
    \/ \E args \in ArgLists, kwargs \in KwargSets : HandleCall(args, kwargs)

\* a client, before any attribute of it is taken
InitHandle ==
    /\ CInit /\ NoService
    /\ procedures = <<>>
    /\ listening = FALSE
    /\ api = <<>>
    /\ napi = 0
    /\ msg_list = <<>>
    /\ parsed = <<>>
    /\ method = <<>>
    /\ chain = <<>>
    /\ given = [args |-> <<>>, kwargs |-> {}]
    /\ issued = <<>>

SpecHandle == InitHandle /\ [][NextHandle]_vars

(***************************************************************************)
(* Properties of the procedure table, of start and of stop.                *)
(***************************************************************************)

\* a call of the public API is made in this step
ApiStep(op) == napi' = napi + 1 /\ api'.op = op

\* the text mentions the name
Mentions(text, n) ==
    \E i \in 1..Len(text) : \E j \in i..Len(text) : SubSeq(text, i, j) = n

\* register is called with a callable, and the name it is to get is reserved
RegistersReserved ==
    /\ ApiStep("register")
    /\ callable(api'.args[1])
    /\ (IF api'.args[2] = NoName THEN api'.args[1].name ELSE api'.args[2])
           \in ReservedNames

C21_Step ==
    RegistersReserved =>
        /\ api'.raised = "ValueError"
        /\ Mentions(api'.text, IF api'.args[2] = NoName
                               THEN api'.args[1].name ELSE api'.args[2])
        /\ procedures' = procedures

\* C21: registering a callable under a reserved name fails with a
\* configuration error (ValueError) whose message mentions the name, and
\* the procedure table after the failed call is the table before it.
C21_ReservedRefused == [][C21_Step]_vars

\* C22: in every reachable state of a service, from construction on and
\* after any register and register_object calls, no reserved name is a key
\* of the procedure table, and the lookup of a reserved name by
\* _parse_request gives the error of an unregistered procedure.
C22_NoReservedKey ==
    svc \in ApiBackends =>
        \A n \in ReservedNames :
            /\ n \notin DOMAIN procedures
            /\ Lookup(n) = Exc("NotImplementedError",
                               <<"Unregistered procedure ", "'", n, "'">>,
                               TRUE)

\* the key 'ns.m'
Dotted(ns, m) == ns \o <<".">> \o <<m>>

\* the methods of ToyObject that are public, not framework verbs and not
\* restricted
Public(restricted) == {"value", "restricted"} \ restricted

C23_Step ==
    (ApiStep("register_object") /\ api'.args[2] # <<>>) =>
        LET obj == api'.args[1]
            ns == api'.args[2]
            keys == {Dotted(ns, m) : m \in Public(api'.args[3])} IN
        /\ \A m \in Public(api'.args[3]) :
              /\ Dotted(ns, m) \in DOMAIN procedures'
              /\ procedures'[Dotted(ns, m)] = ToyMethod(obj, m)
        /\ \A k \in DOMAIN procedures' \ keys :
              /\ k \in DOMAIN procedures
              /\ procedures'[k] = procedures[k]

\* C23: register_object(obj, namespace=ns) with a non-empty, possibly dotted
\* namespace puts each accepted method m under the exact key 'ns.m' and
\* under no other key (the unprefixed m does not become resolvable), so the
\* keys of objects under other namespaces go on resolving to their own
\* object.
C23_NamespacedKeys == [][C23_Step]_vars

\* two objects are registered under the namespaces a and a.b: value
\* resolves to each under its own key and is not resolvable without prefix
C23_Witness ==
    /\ <<"a", ".", "value">> \in DOMAIN procedures
    /\ <<"a", ".", "b", ".", "value">> \in DOMAIN procedures
    /\ procedures[<<"a", ".", "value">>].of
           # procedures[<<"a", ".", "b", ".", "value">>].of
    /\ <<"value">> \notin DOMAIN procedures

\* the key of method m under a namespace that may be empty
KeyOf(ns, m) == IF ns = <<>> THEN <<m>> ELSE Dotted(ns, m)

C24_Step ==
    ApiStep("register_object") =>
        LET keys == {KeyOf(api'.args[2], m) : m \in Public(api'.args[3])} IN
        /\ api'.raised = "none"
        /\ DOMAIN procedures' = DOMAIN procedures \cup keys
        /\ \A k \in DOMAIN procedures \ keys : procedures'[k] = procedures[k]

\* C24: register_object inserts exactly the callable attributes of the
\* object whose names do not start with '_', are not restricted and are
\* not reserved; the others are skipped without an exception, and the
\* entries that were in the table stay.
C24_AcceptedOnly == [][C24_Step]_vars

\* an object has been registered with 'restricted' restricted, after a
\* function: the function is still there, value is there, and neither the
\* restricted, the private nor the reserved method of the object is
C24_Witness ==
    /\ api.op = "register_object"
    /\ api.args[3] = {"restricted"}
    /\ api.args[2] = <<>>
    /\ <<"work">> \in DOMAIN procedures
    /\ <<"value">> \in DOMAIN procedures
    /\ DOMAIN procedures = {<<"work">>, <<"value">>}

\* the table changes at key n alone, which now holds f
OnlyAt(n, f) ==
    /\ n \in DOMAIN procedures'
    /\ procedures'[n] = f
    /\ DOMAIN procedures' = DOMAIN procedures \cup {n}
    /\ \A k \in DOMAIN procedures \ {n} : procedures'[k] = procedures[k]

C25_Step ==
    ApiStep("register") =>
        LET f == api'.args[1]
            n == api'.args[2] IN
        /\ (callable(f) /\ n = NoName /\ f.name \notin ReservedNames) =>
               api'.raised = "none" /\ OnlyAt(f.name, f)
        /\ (callable(f) /\ n # NoName /\ n \notin ReservedNames) =>
               api'.raised = "none" /\ OnlyAt(n, f)
        /\ ((f = NoFunc /\ n = NoName) \/ f = NotCallable) =>
               api'.raised = "ValueError" /\ procedures' = procedures

\* C25: register(callable) without a name puts the callable under its own
\* name; register(callable, name=n) puts it under n and under no other key,
\* so its own name does not become resolvable; register without callable
\* and name, or with an object that is not callable, fails and leaves the
\* table as it was (names that are not reserved).
C25_RegisterNames == [][C25_Step]_vars

\* fixture has been registered as work: work resolves to it, fixture does
\* not resolve
C25_Witness ==
    /\ api.op = "register"
    /\ api.args = <<Function(<<"fixture">>), <<"work">>>>
    /\ <<"work">> \in DOMAIN procedures
    /\ procedures[<<"work">>] = Function(<<"fixture">>)
    /\ <<"fixture">> \notin DOMAIN procedures

C30_Step ==
    ApiStep("stop") =>
        /\ api'.raised = "none"
        /\ listening' = FALSE
        /\ api.op = "stop" =>
               listening' = listening /\ procedures' = procedures

\* C30: in every service backend stop leaves listen mode without raising,
\* on a started service, on a service that was never started and when it
\* is called twice in a row, and the second stop changes nothing.
C30_StopIdempotent == [][C30_Step]_vars

(***************************************************************************)
(* Properties of _parse_request.                                           *)
(***************************************************************************)

HasSeparator(l) == \E i \in 1..Len(l) : l[i] = "|"

\* the separator is there, but fewer than the frames of req_id, name,
\* arguments and keyword arguments follow it
Truncated(l) ==
    \E i \in 1..Len(l) :
        /\ l[i] = "|" /\ \A j \in 1..(i - 1) : l[j] # "|"
        /\ Len(l) - i < 4

\* the frames of the arguments are there and one of them does not decode
Undecodable(l) ==
    \E i \in 1..Len(l) :
        /\ l[i] = "|" /\ \A j \in 1..(i - 1) : l[j] # "|"
        /\ Len(l) - i >= 4
        /\ (l[i + 3] # "args" \/ l[i + 4] # "args")

\* C27: for every frame list _parse_request returns None or a request and
\* raises nothing; it returns None when the separator is missing or the
\* list is shorter than the minimum, when the separator is among the last
\* frames, and when the frames of the arguments do not decode.
C27_ParseNeverRaises ==
    parsed.kind \in {"None", "request", "raise"} =>
        /\ parsed.kind # "raise"
        /\ (~HasSeparator(msg_list) \/ Len(msg_list) < MinFrames) =>
               parsed.kind = "None"
        /\ Truncated(msg_list) => parsed.kind = "None"
        /\ Undecodable(msg_list) => parsed.kind = "None"

(***************************************************************************)
(* Properties of remote handles.                                           *)
(***************************************************************************)

\* the names joined by "."
RECURSIVE JoinDots(_)
JoinDots(names) ==
    IF Len(names) = 1 THEN <<names[1]>>
    ELSE JoinDots(SubSeq(names, 1, Len(names) - 1))
             \o <<".", names[Len(names)]>>

C26_Step ==
    /\ Len(issued') \in {Len(issued), Len(issued) + 1}
    /\ chain' # chain => issued' = issued
    /\ Len(issued') = Len(issued) + 1 =>
           /\ SubSeq(issued', 1, Len(issued)) = issued
           /\ issued'[Len(issued')].proc_name = JoinDots(chain)
           /\ issued'[Len(issued')].args = given'.args
           /\ issued'[Len(issued')].kwargs = given'.kwargs

C33_Step ==
    /\ ApiStep("start") =>
          /\ listening'
          /\ IF listening
             THEN /\ api'.raised = "AssertionError"
                  /\ api'.text = <<"already started">>
             ELSE api'.raised = "none"
    /\ ApiStep("stop") => ~listening'
    /\ (ApiStep("start") /\ api.op = "stop") => api'.raised = "none"
    /\ (ApiStep("start") \/ ApiStep("stop")) => procedures' = procedures

\* C33: the listen state of a service has two states: start on a started
\* service fails with 'already started' and leaves it listening, after
\* stop the service is not listening, and a start that follows a stop
\* succeeds; neither call touches the rest of the service.
C33_ListenStateMachine == [][C33_Step]_vars
====
